---- MODULE Spec2Model ----
(***************************************************************************)
(* Model of the ZenOne session runtime (src/rust-core/lib.rs):              *)
(*   - ZenOneRuntime   : the caller-facing handle (enqueue / snapshot read) *)
(*   - RuntimeActor    : the single-writer command loop and its handlers    *)
(*   - SafetyMonitor   : check_event over the bounded trace                 *)
(*   - SignalActor     : the rPPG worker loop                               *)
(* f32 tempo values are kept in hundredths (0.8 = 80); NaN is a separate     *)
(* value with IEEE comparison semantics.  Timestamps are milliseconds.      *)
(***************************************************************************)
EXTENDS Integers, Sequences, FiniteSets, TLC

VARIABLES
    inner,          \* RuntimeInner (owned by the RuntimeActor thread)
    safety,         \* SafetyMonitorInner of the actor's SafetyMonitor
    state_tx,       \* Arc<RwLock<FfiRuntimeState>>: the published snapshot
    latest_frame,   \* Arc<RwLock<FfiFrame>>
    cmd_q,          \* unbounded channel ZenOneRuntime.cmd_tx -> RuntimeActor.cmd_rx
    signal_q,       \* unbounded channel RuntimeActor.signal_tx -> SignalActor.cmd_rx
    event_q,        \* unbounded channel SignalActor.event_tx -> RuntimeActor.signal_rx
    reply,          \* per-caller bounded(1) reply channel of stop_session
    pc,             \* per-caller position: "idle", "stop_recv", "reading", "panicked"
    ret,            \* result of the most recently completed call
    actor_alive,    \* the RuntimeActor thread is running
    poisoned,       \* the snapshot's std::sync::RwLock is poisoned
    rw,             \* the snapshot's RwLock: holders, and the copies in progress
    shutdown,       \* cmd_tx dropped with the handle; the SignalActor loop left
    pid,            \* the PidController: config and PidControllerInner fields
    safety_state,   \* SafetyMonitorInner of the Tauri SafetyMonitorState
    now,            \* the latest reading of Utc::now().timestamp_millis()
    ops             \* number of caller operations still to be issued

vars == <<inner, safety, state_tx, latest_frame, cmd_q, signal_q, event_q,
          reply, pc, ret, actor_alive, poisoned, rw, shutdown, pid, safety_state, now, ops>>

-----------------------------------------------------------------------------
(* Bounds of the model *)

\* caller operations in a run of Spec
MaxOps == 2

\* caller operations in a run of LiveSpec
MaxLiveOps == 3

\* caller operations in a run of StreamSpec
MaxStreamOps == 3

\* caller operations in a run of SnapSpec
MaxSnapOps == 4

\* caller operations in a run of FifoSpec
MaxFifoOps == 3

\* caller operations in a run of PauseSpec
MaxPauseOps == 3

\* caller operations in a run of ShutSpec
MaxShutOps == 2

\* calls on the monitor in a run of MonitorSpec
MaxChecks == 2

\* calls on the controller in a run of PidSpec
MaxPidOps == 3

\* caller operations in a run of SampleSpec
MaxSampleOps == 3

\* caller operations in a run of StatsSpec
MaxStatsOps == 4

\* caller operations in a run of PanicSpec
MaxPanicOps == 4

\* caller operations in a run of TauriSpec
MaxTauriOps == 3

\* advances of the wall clock
MaxAdvances == 1

\* breathing cycles the phase machine completes
MaxCycles == 1

\* caller operations in a run of CoreSpec
MaxCoreOps == 3

Callers == {"c1", "c2"}

-----------------------------------------------------------------------------
(* f32 arithmetic on hundredths, with NaN *)

NaN == -1

FLt(a, b) == a # NaN /\ b # NaN /\ a < b

FGt(a, b) == a # NaN /\ b # NaN /\ a > b

\* f32::clamp: NaN stays NaN
FClamp(x, lo, hi) ==
    IF x = NaN THEN NaN
    ELSE IF x < lo THEN lo
    ELSE IF x > hi THEN hi
    ELSE x

\* (a - b).abs()
FAbsDiff(a, b) ==
    IF a = NaN \/ b = NaN THEN NaN
    ELSE IF a >= b THEN a - b ELSE b - a

MIN_TEMPO == 80

MAX_TEMPO == 140

\* scales a caller may request: NaN, below the range, above the range
RequestedScales == {NaN, 50, 200}

-----------------------------------------------------------------------------
(* PidController.  Its f32 values are a finite number in ten-thousandths,    *)
(* NaN, or an infinity; the operations follow IEEE 754 on the special values *)
(* and round finite results to the ten-thousandth.                           *)

\* one, in ten-thousandths
Unit == 10000

Fin(v) == <<"fin", v>>

F32NaN == <<"nan", 0>>

Inf(sign) == <<"inf", sign>>

is_nan(x) == x[1] = "nan"

is_finite(x) == x[1] = "fin"

\* -1, 0 or 1 for a value that is not NaN
Signum(x) ==
    IF x[1] = "inf" THEN x[2]
    ELSE IF x[2] > 0 THEN 1 ELSE IF x[2] < 0 THEN 0 - 1 ELSE 0

\* n / d rounded toward zero, d # 0
RoundDiv(n, d) ==
    LET an == IF n < 0 THEN 0 - n ELSE n
        ad == IF d < 0 THEN 0 - d ELSE d
        q == an \div ad
    IN  IF (n < 0) = (d < 0) THEN q ELSE 0 - q

\* a < b
f32_lt(a, b) ==
    /\ ~is_nan(a) /\ ~is_nan(b)
    /\ LET ra == IF is_finite(a) THEN 0 ELSE a[2]
           rb == IF is_finite(b) THEN 0 ELSE b[2]
       IN  \/ ra < rb
           \/ is_finite(a) /\ is_finite(b) /\ a[2] < b[2]

\* a <= b
f32_le(a, b) == ~is_nan(a) /\ ~is_nan(b) /\ ~f32_lt(b, a)

\* -a
f32_neg(a) ==
    IF is_nan(a) THEN F32NaN
    ELSE IF is_finite(a) THEN Fin(0 - a[2]) ELSE Inf(0 - a[2])

\* a + b
f32_add(a, b) ==
    IF is_nan(a) \/ is_nan(b) THEN F32NaN
    ELSE IF is_finite(a) /\ is_finite(b) THEN Fin(a[2] + b[2])
    ELSE IF is_finite(a) THEN b
    ELSE IF is_finite(b) THEN a
    ELSE IF a[2] = b[2] THEN a ELSE F32NaN

\* a - b
f32_sub(a, b) == f32_add(a, f32_neg(b))

\* a * b
f32_mul(a, b) ==
    IF is_nan(a) \/ is_nan(b) THEN F32NaN
    ELSE IF is_finite(a) /\ is_finite(b) THEN Fin(RoundDiv(a[2] * b[2], Unit))
    ELSE IF Signum(a) = 0 \/ Signum(b) = 0 THEN F32NaN
    ELSE Inf(Signum(a) * Signum(b))

\* a / b
f32_div(a, b) ==
    IF is_nan(a) \/ is_nan(b) THEN F32NaN
    ELSE IF ~is_finite(a) /\ ~is_finite(b) THEN F32NaN
    ELSE IF ~is_finite(b) THEN Fin(0)
    ELSE IF ~is_finite(a) THEN Inf(IF b[2] < 0 THEN 0 - a[2] ELSE a[2])
    ELSE IF b[2] = 0 THEN (IF a[2] = 0 THEN F32NaN ELSE Inf(Signum(a)))
    ELSE Fin(RoundDiv(a[2] * Unit, b[2]))

\* f32::clamp(min, max) for min <= max: a NaN receiver stays NaN
f32_clamp(x, min, max) ==
    IF f32_lt(x, min) THEN min ELSE IF f32_lt(max, x) THEN max ELSE x

\* FfiPidConfig::default(), the configuration create_tempo_controller() uses too
FfiPidConfigDefault ==
    [ kp |-> Fin(30),
      ki |-> Fin(2),
      kd |-> Fin(80),
      integral_max |-> Fin(5 * Unit),
      output_min |-> Fin(0 - 6000),
      output_max |-> Fin(4000),
      derivative_alpha |-> Fin(1500) ]

\* PidController::with_config(config)
with_config(config) ==
    [ config |-> config,
      integral |-> Fin(0),
      last_error |-> Fin(0),
      last_derivative |-> Fin(0),
      last_p |-> Fin(0),
      last_i |-> Fin(0),
      last_d |-> Fin(0) ]

\* PidController::create_tempo_controller()
create_tempo_controller == with_config(FfiPidConfigDefault)

\* the body of compute after the test of dt
compute_body(p, error, dt) ==
    LET c == p.config
        last_p == f32_mul(c.kp, error)
        integral == f32_clamp(f32_add(p.integral, f32_mul(error, dt)),
                              f32_neg(c.integral_max), c.integral_max)
        last_i == f32_mul(c.ki, integral)
        raw_derivative == f32_div(f32_sub(error, p.last_error), dt)
        last_derivative ==
            f32_add(f32_mul(c.derivative_alpha, raw_derivative),
                    f32_mul(f32_sub(Fin(Unit), c.derivative_alpha), p.last_derivative))
        last_d == f32_mul(c.kd, last_derivative)
        output == f32_add(f32_add(last_p, last_i), last_d)
        clamped == f32_clamp(output, c.output_min, c.output_max)
    IN  [ pid |-> [ p EXCEPT !.last_p = last_p,
                             !.integral = integral,
                             !.last_i = last_i,
                             !.last_derivative = last_derivative,
                             !.last_d = last_d,
                             !.last_error = error ],
          out |-> clamped ]

\* a compute that runs its body whatever dt is
compute_any_dt(p, error, dt) == compute_body(p, error, dt)

\* PidController::compute(error, dt): the controller afterwards and the output
compute(p, error, dt) ==
    IF f32_le(dt, Fin(0)) \/ ~is_finite(dt)
    THEN [pid |-> p, out |-> Fin(0)]
    ELSE compute_body(p, error, dt)

\* PidController::reset()
reset(p) ==
    [ p EXCEPT !.integral = Fin(0),
               !.last_error = Fin(0),
               !.last_derivative = Fin(0),
               !.last_p = Fin(0),
               !.last_i = Fin(0),
               !.last_d = Fin(0) ]

\* set_gains that also clears the history
set_gains_and_reset(p, kp, ki, kd) ==
    [ reset(p) EXCEPT !.config =
        [ @ EXCEPT !.kp = IF kp # <<>> THEN kp[1] ELSE @,
                   !.ki = IF ki # <<>> THEN ki[1] ELSE @,
                   !.kd = IF kd # <<>> THEN kd[1] ELSE @ ] ]

\* PidController::set_gains(kp, ki, kd); each argument is an Option
set_gains(p, kp, ki, kd) ==
    [ p EXCEPT !.config =
        [ @ EXCEPT !.kp = IF kp # <<>> THEN kp[1] ELSE @,
                   !.ki = IF ki # <<>> THEN ki[1] ELSE @,
                   !.kd = IF kd # <<>> THEN kd[1] ELSE @ ] ]

-----------------------------------------------------------------------------
(* Pattern catalog and collaborators *)

\* ids of builtin_patterns() (two of the eleven entries; all entries are
\* handled alike, only the id is observable here)
builtin_patterns == {"4-7-8", "box"}

\* an id that is not in the catalog
UnknownPatternIds == {"nope"}

Phases == <<"Inhale", "HoldIn", "Exhale", "HoldOut">>

\* PhaseMachine::new(durations)
PhaseMachineNew == [phase |-> 1, cycle_index |-> 0]

\* PhaseMachine::tick(dt_us): the outcomes of advancing by some elapsed time
\* (none, into the next phase, or through the end of the cycle)
PhaseMachineTick(pm) ==
    {pm}
    \cup { [pm EXCEPT !.phase = pm.phase + 1] : x \in {y \in {1} : pm.phase < 4} }
    \cup { [phase |-> 1, cycle_index |-> pm.cycle_index + 1] :
             x \in {y \in {1} : pm.cycle_index < MaxCycles} }

\* PhaseMachine::cycle_phase_norm(): progress, to the quarter of the phase
cycle_phase_norm(pm) == pm.phase - 1

\* Engine belief: uncertainty = 1 - confidence, in hundredths
Uncertainties == {50, 90}

\* heart rates the rPPG processor may report
HrValues == {60, 80}

-----------------------------------------------------------------------------
(* SafetyMonitor *)

max_trace_size == 100

RecentWindow == 10

PatternStabilityMs == 60000

UncertaintyLimit == 80

Violation(name, sev) == [spec_name |-> name, severity |-> sev]

\* inner.trace.iter().rev().take(n)
LastN(s, n) == IF Len(s) <= n THEN s ELSE SubSeq(s, Len(s) - n + 1, Len(s))

\* rate = tempo_delta / dt_sec; rate > 0.1   (delta in hundredths, dt in ms)
RateExceeds(delta, dt_ms) == delta # NaN /\ delta * 100 > dt_ms

SafetyMonitorNew ==
    [ trace |-> <<>>,
      violations |-> <<>>,
      last_tempo |-> 100,
      last_tempo_change_ms |-> 0,
      last_pattern_change_ms |-> 0 ]

\* SAFETY SPEC 1: Tempo Bounds
tempo_bounds(rs) ==
    IF FLt(rs.tempo_scale, 80) \/ FGt(rs.tempo_scale, 140)
    THEN <<Violation("tempo_bounds", "Error")>> ELSE <<>>

\* SAFETY SPEC 2: Safety Lock Immutability
safety_lock_immutable(event, rs) ==
    IF rs.status = "SafetyLock" /\ event.event_type = "StartSession"
    THEN <<Violation("safety_lock_immutable", "Critical")>> ELSE <<>>

\* SAFETY SPEC 3: Tempo Rate Limit
tempo_rate_limit(sm, event, rs) ==
    LET dt_ms == event.timestamp_ms - sm.last_tempo_change_ms IN
    IF event.event_type = "AdjustTempo" /\ dt_ms > 0
       /\ RateExceeds(FAbsDiff(rs.tempo_scale, sm.last_tempo), dt_ms)
    THEN <<Violation("tempo_rate_limit", "Warning")>> ELSE <<>>

\* pattern_stability with the 60 s comparison reversed
pattern_stability_reversed(sm, event) ==
    LET dt_ms == event.timestamp_ms - sm.last_pattern_change_ms IN
    IF event.event_type = "LoadPattern"
       /\ dt_ms > PatternStabilityMs /\ sm.last_pattern_change_ms > 0
    THEN <<Violation("pattern_stability", "Warning")>> ELSE <<>>

\* SAFETY SPEC 4: Pattern Stability
pattern_stability(sm, event) ==
    LET dt_ms == event.timestamp_ms - sm.last_pattern_change_ms IN
    IF event.event_type = "LoadPattern"
       /\ dt_ms < PatternStabilityMs /\ sm.last_pattern_change_ms > 0
    THEN <<Violation("pattern_stability", "Warning")>> ELSE <<>>

\* panic_halt that looks one trace entry further back
panic_halt_wider(trace, event, rs) ==
    LET recent == LastN(trace, RecentWindow + 1)
        has_recent_halt ==
            \E i \in 1..Len(recent) : recent[i].event_type = "EmergencyHalt"
    IN  IF rs.uncertainty > UncertaintyLimit
           /\ ~has_recent_halt /\ event.event_type # "EmergencyHalt"
        THEN <<Violation("panic_halt", "Critical")>> ELSE <<>>

\* SAFETY SPEC 5: Panic Halt; `trace` already holds the event being checked
panic_halt(trace, event, rs) ==
    LET recent == LastN(trace, RecentWindow)
        has_recent_halt ==
            \E i \in 1..Len(recent) : recent[i].event_type = "EmergencyHalt"
    IN  IF rs.uncertainty > UncertaintyLimit
           /\ ~has_recent_halt /\ event.event_type # "EmergencyHalt"
        THEN <<Violation("panic_halt", "Critical")>> ELSE <<>>

\* A trace push that never evicts
push_trace_unbounded(trace, event) == Append(trace, event)

\* inner.trace.push_back(event); if inner.trace.len() > max_trace_size, pop_front()
push_trace(trace, event) ==
    LET pushed == Append(trace, event)
    IN  IF Len(pushed) > max_trace_size THEN Tail(pushed) ELSE pushed

\* A clear that rebuilds the whole monitor
clear_violations_and_trace(sm) == SafetyMonitorNew

\* SafetyMonitor::clear_violations: inner.violations.clear()
clear_violations(sm) == [sm EXCEPT !.violations = <<>>]

\* check_event that remembers the tempo and the timestamps of safe events only
check_event_remember_if_safe(sm, event, rs) ==
    LET trace1 == push_trace(sm.trace, event)
        violations ==
            tempo_bounds(rs)
            \o safety_lock_immutable(event, rs)
            \o tempo_rate_limit(sm, event, rs)
            \o pattern_stability(sm, event)
            \o panic_halt(trace1, event, rs)
        isTempo == event.event_type = "AdjustTempo" /\ violations = <<>>
        isLoad == event.event_type = "LoadPattern" /\ violations = <<>>
    IN  [ safety |->
            [ trace |-> trace1,
              violations |-> sm.violations \o violations,
              last_tempo |-> IF isTempo THEN rs.tempo_scale ELSE sm.last_tempo,
              last_tempo_change_ms |->
                  IF isTempo THEN event.timestamp_ms ELSE sm.last_tempo_change_ms,
              last_pattern_change_ms |->
                  IF isLoad THEN event.timestamp_ms ELSE sm.last_pattern_change_ms ],
          is_safe |-> violations = <<>>,
          violations |-> violations ]

\* SafetyMonitor::check_event: the new monitor state and the violations produced
check_event(sm, event, rs) ==
    LET trace1 == push_trace(sm.trace, event)
        isTempo == event.event_type = "AdjustTempo"
        isLoad == event.event_type = "LoadPattern"
        violations ==
            tempo_bounds(rs)
            \o safety_lock_immutable(event, rs)
            \o tempo_rate_limit(sm, event, rs)
            \o pattern_stability(sm, event)
            \o panic_halt(trace1, event, rs)
    IN  [ safety |->
            [ trace |-> trace1,
              violations |-> sm.violations \o violations,
              last_tempo |-> IF isTempo THEN rs.tempo_scale ELSE sm.last_tempo,
              last_tempo_change_ms |->
                  IF isTempo THEN event.timestamp_ms ELSE sm.last_tempo_change_ms,
              last_pattern_change_ms |->
                  IF isLoad THEN event.timestamp_ms ELSE sm.last_pattern_change_ms ],
          is_safe |-> violations = <<>>,
          violations |-> violations ]

-----------------------------------------------------------------------------
(* RuntimeActor: state and handlers.  A handler takes the actor (`self`: its  *)
(* inner state, its monitor, and the shared cells and channel it writes) and  *)
(* returns the actor after the handler has run to completion.                 *)

None == <<>>

Some(x) == <<x>>

\* get_engine_belief(&engine), reduced to the uncertainty the monitor reads
get_engine_belief(engine) == engine.uncertainty

\* RuntimeActor::update_shared_state: *guard = FfiRuntimeState { .. }
update_shared_state(self) ==
    [ self EXCEPT !.state_tx =
        [ status |-> self.inner.status,
          pattern_id |-> self.inner.current_pattern_id,
          phase |-> Phases[self.inner.phase_machine.phase],
          phase_progress |-> cycle_phase_norm(self.inner.phase_machine),
          cycles_completed |-> self.inner.phase_machine.cycle_index,
          tempo_scale |-> self.inner.tempo_scale,
          uncertainty |-> get_engine_belief(self.inner.engine),
          is_locked |-> self.inner.safety_locked,
          trauma_count |-> Len(self.safety.violations) ] ]

\* RuntimeActor::update_latest_frame(hr, quality)
update_latest_frame(self, hr) ==
    [ self EXCEPT !.latest_frame =
        [ phase |-> Phases[self.inner.phase_machine.phase],
          phase_progress |-> cycle_phase_norm(self.inner.phase_machine),
          cycles_completed |-> self.inner.phase_machine.cycle_index,
          heart_rate |-> hr ] ]

\* the loop of verify_command returning false on a violation of any severity
BlocksOnAny(violations) == violations # <<>>

\* the loop of verify_command over result.violations
Blocks(violations) ==
    \E i \in 1..Len(violations) : violations[i].severity \in {"Critical", "Error"}

\* verify_command that engages the lock when it blocks a command
verify_command_halting(self, event_type, ts) ==
    LET event == [event_type |-> event_type, timestamp_ms |-> ts]
        result == check_event(self.safety, event, self.state_tx)
        checked == [self EXCEPT !.safety = result.safety]
    IN  IF ~result.is_safe /\ Blocks(result.violations)
        THEN [ ok |-> FALSE,
               self |-> update_shared_state(
                          [ checked EXCEPT !.inner.status = "SafetyLock",
                                           !.inner.safety_locked = TRUE ]) ]
        ELSE [ok |-> TRUE, self |-> checked]

\* RuntimeActor::verify_command: [ok, self]
verify_command(self, event_type, ts) ==
    LET event == [event_type |-> event_type, timestamp_ms |-> ts]
        state_snapshot == self.state_tx
        result == check_event(self.safety, event, state_snapshot)
        checked == [self EXCEPT !.safety = result.safety]
    IN  IF ~result.is_safe /\ Blocks(result.violations)
        THEN [ok |-> FALSE, self |-> update_shared_state(checked)]
        ELSE [ok |-> TRUE, self |-> checked]

\* handle_start that does not reset the signal pipeline
handle_start_no_reset(self, ts) ==
    LET v == verify_command(self, "StartSession", ts) IN
    IF ~v.ok THEN v.self
    ELSE IF v.self.inner.safety_locked THEN v.self
    ELSE update_shared_state(
           [ v.self EXCEPT
               !.inner.phase_machine = PhaseMachineNew,
               !.inner.status = "Running",
               !.inner.session =
                   Some([ pattern_id |-> v.self.inner.current_pattern_id,
                          hr_samples |-> <<>> ]) ])

\* handle_start without its test of safety_locked
handle_start_no_flag(self, ts) ==
    LET v == verify_command(self, "StartSession", ts) IN
    IF ~v.ok THEN v.self
    ELSE update_shared_state(
           [ v.self EXCEPT
               !.inner.phase_machine = PhaseMachineNew,
               !.signal_tx = Append(@, "Reset"),
               !.inner.status = "Running",
               !.inner.session =
                   Some([ pattern_id |-> v.self.inner.current_pattern_id,
                          hr_samples |-> <<>> ]) ])

\* handle_start that keeps the session and the phase machine it finds
handle_start_keep_session(self, ts) ==
    LET v == verify_command(self, "StartSession", ts) IN
    IF ~v.ok THEN v.self
    ELSE IF v.self.inner.safety_locked THEN v.self
    ELSE IF v.self.inner.session # None
    THEN update_shared_state(
           [ v.self EXCEPT
               !.signal_tx = Append(@, "Reset"),
               !.inner.status = "Running" ])
    ELSE update_shared_state(
           [ v.self EXCEPT
               !.inner.phase_machine = PhaseMachineNew,
               !.signal_tx = Append(@, "Reset"),
               !.inner.status = "Running",
               !.inner.session =
                   Some([ pattern_id |-> v.self.inner.current_pattern_id,
                          hr_samples |-> <<>> ]) ])

\* RuntimeActor::handle_start
handle_start(self, ts) ==
    LET v == verify_command(self, "StartSession", ts) IN
    IF ~v.ok THEN v.self
    ELSE IF v.self.inner.safety_locked THEN v.self
    ELSE update_shared_state(
           [ v.self EXCEPT
               !.inner.phase_machine = PhaseMachineNew,
               !.signal_tx = Append(@, "Reset"),
               !.inner.status = "Running",
               !.inner.session =
                   Some([ pattern_id |-> v.self.inner.current_pattern_id,
                          hr_samples |-> <<>> ]) ])

RECURSIVE SumSeq(_)
\* hr_samples.iter().sum()
SumSeq(s) == IF s = <<>> THEN 0 ELSE Head(s) + SumSeq(Tail(s))

\* hr_samples.iter().sum::<f32>() / hr_samples.len() as f32, in hundredths
Mean(s) == (SumSeq(s) * 100) \div Len(s)

\* the statistics of handle_stop computed once the session has been taken
SessionStatsAfterTake(self) ==
    [ duration_sec |-> "0.0",
      cycles_completed |-> 0,
      pattern_id |-> "",
      avg_heart_rate |-> None ]

\* the FfiSessionStats built by handle_stop; the duration of a session is
\* start_time.elapsed(), kept as "elapsed" against the literal "0.0"
SessionStats(self) ==
    IF self.inner.session # None
    THEN LET session == self.inner.session[1] IN
         [ duration_sec |-> "elapsed",
           cycles_completed |-> self.inner.phase_machine.cycle_index,
           pattern_id |-> session.pattern_id,
           avg_heart_rate |->
               IF session.hr_samples # <<>> THEN Some(Mean(session.hr_samples))
               ELSE None ]
    ELSE [ duration_sec |-> "0.0",
           cycles_completed |-> 0,
           pattern_id |-> "",
           avg_heart_rate |-> None ]

\* handle_stop that discards the session and leaves the status
handle_stop_keep_status(self) ==
    update_shared_state([self EXCEPT !.inner.session = None])

\* handle_stop that returns early while the lock is engaged
handle_stop_unless_locked(self) ==
    IF self.inner.safety_locked THEN self
    ELSE update_shared_state(
           [ self EXCEPT !.inner.status = "Idle", !.inner.session = None ])

\* RuntimeActor::handle_stop, apart from the reply it sends (SessionStats)
handle_stop(self) ==
    update_shared_state(
        [ self EXCEPT !.inner.status = "Idle", !.inner.session = None ])

\* handle_reset_safety_lock that keeps the session
handle_reset_safety_lock_keep_session(self) ==
    update_shared_state(
        [ self EXCEPT !.inner.safety_locked = FALSE, !.inner.status = "Idle" ])

\* RuntimeActor::handle_reset_safety_lock
handle_reset_safety_lock(self) ==
    update_shared_state(
        [ self EXCEPT
            !.inner.safety_locked = FALSE,
            !.inner.status = "Idle",
            !.inner.session = None ])

\* handle_adjust_tempo that does not publish the new tempo
handle_adjust_tempo_unpublished(self, scale, ts) ==
    LET v == verify_command(self, "AdjustTempo", ts) IN
    IF ~v.ok THEN v.self
    ELSE [v.self EXCEPT !.inner.tempo_scale = scale]

\* RuntimeActor::handle_adjust_tempo
handle_adjust_tempo(self, scale, ts) ==
    LET v == verify_command(self, "AdjustTempo", ts) IN
    IF ~v.ok THEN v.self
    ELSE update_shared_state([v.self EXCEPT !.inner.tempo_scale = scale])

\* RuntimeActor::handle_update_context (the context does not enter the model
\* of the engine: its belief moves on tick)
handle_update_context(self) ==
    update_shared_state(self)

\* handle_emergency_halt that sets the status and leaves the lock flag
handle_emergency_halt_no_flag(self) ==
    update_shared_state([self EXCEPT !.inner.status = "SafetyLock"])

\* handle_emergency_halt that passes the command through verify_command first
handle_emergency_halt_verified(self) ==
    LET v == verify_command(self, "EmergencyHalt", now) IN
    update_shared_state(
        [ v.self EXCEPT
            !.inner.status = "SafetyLock",
            !.inner.safety_locked = TRUE ])

\* RuntimeActor::handle_emergency_halt
handle_emergency_halt(self) ==
    update_shared_state(
        [ self EXCEPT
            !.inner.status = "SafetyLock",
            !.inner.safety_locked = TRUE ])

\* handle_pause without its test of the status
handle_pause_always(self) ==
    update_shared_state([self EXCEPT !.inner.status = "Paused"])

\* RuntimeActor::handle_pause
handle_pause(self) ==
    IF self.inner.status = "Running"
    THEN update_shared_state([self EXCEPT !.inner.status = "Paused"])
    ELSE self

\* handle_resume without its test of the status
handle_resume_any(self) ==
    update_shared_state([self EXCEPT !.inner.status = "Running"])

\* RuntimeActor::handle_resume
handle_resume(self) ==
    IF self.inner.status = "Paused"
    THEN update_shared_state([self EXCEPT !.inner.status = "Running"])
    ELSE self

\* handle_load_pattern that keeps the phase machine it has
handle_load_pattern_keep_pm(self, id, ts) ==
    LET v == verify_command(self, "LoadPattern", ts) IN
    IF v.ok /\ ~v.self.inner.safety_locked /\ id \in builtin_patterns
    THEN update_shared_state([v.self EXCEPT !.inner.current_pattern_id = id])
    ELSE v.self

\* RuntimeActor::handle_load_pattern
handle_load_pattern(self, id, ts) ==
    LET v == verify_command(self, "LoadPattern", ts) IN
    IF ~v.ok THEN v.self
    ELSE IF v.self.inner.safety_locked THEN v.self
    ELSE IF id \in builtin_patterns
    THEN update_shared_state(
           [ v.self EXCEPT
               !.inner.phase_machine = PhaseMachineNew,
               !.inner.current_pattern_id = id ])
    ELSE v.self

\* handle_process_frame that forwards the sample twice
handle_process_frame_twice(self) ==
    [self EXCEPT !.signal_tx = Append(Append(@, "ProcessSample"), "ProcessSample")]

\* RuntimeActor::handle_process_frame
handle_process_frame(self) ==
    [self EXCEPT !.signal_tx = Append(@, "ProcessSample")]

\* handle_tick that does nothing unless a session is running
handle_tick_if_running(self, pm, u) ==
    IF self.inner.status # "Running" THEN self
    ELSE update_latest_frame(
           update_shared_state(
               [ self EXCEPT
                   !.inner.phase_machine = pm,
                   !.inner.engine.uncertainty = u ]),
           None)

\* handle_tick that publishes the snapshot before it ticks the phase machine
handle_tick_stale(self, pm, u) ==
    update_latest_frame(
        [ update_shared_state(self) EXCEPT
            !.inner.phase_machine = pm,
            !.inner.engine.uncertainty = u ],
        None)

\* RuntimeActor::handle_tick; `pm` and `u` are the phase machine and the
\* engine belief after their tick(dt_us)
handle_tick(self, pm, u) ==
    update_latest_frame(
        update_shared_state(
            [ self EXCEPT
                !.inner.phase_machine = pm,
                !.inner.engine.uncertainty = u ]),
        None)

\* handle_signal_event that publishes the frame and keeps no sample
handle_signal_event_frame_only(self, hr) == update_latest_frame(self, Some(hr))

\* RuntimeActor::handle_signal_event, for SignalEvent::Result { hr, .. }
handle_signal_event(self, hr) ==
    update_latest_frame(
        IF self.inner.session # None
        THEN [self EXCEPT !.inner.session[1].hr_samples = Append(@, hr)]
        ELSE self,
        Some(hr))

-----------------------------------------------------------------------------
(* Initial state: ZenOneRuntime::new() *)

NoReply == [buf |-> <<>>, tx |-> FALSE]

NoRet == [kind |-> "none", val |-> 0]

StartWith(budget, sm, t) ==
    /\ inner \in
         { [ engine |-> [uncertainty |-> u],
             phase_machine |-> PhaseMachineNew,
             current_pattern_id |-> "4-7-8",
             session |-> None,
             status |-> "Idle",
             tempo_scale |-> 100,
             safety_locked |-> FALSE ] : u \in Uncertainties }
    /\ safety = sm
    /\ state_tx =
         [ status |-> "Idle",
           pattern_id |-> "4-7-8",
           phase |-> Phases[inner.phase_machine.phase],
           phase_progress |-> 0,
           cycles_completed |-> 0,
           tempo_scale |-> 100,
           uncertainty |-> get_engine_belief(inner.engine),
           is_locked |-> FALSE,
           trauma_count |-> 0 ]
    /\ latest_frame =
         [ phase |-> Phases[inner.phase_machine.phase],
           phase_progress |-> 0,
           cycles_completed |-> 0,
           heart_rate |-> None ]
    /\ cmd_q = <<>>
    /\ signal_q = <<>>
    /\ event_q = <<>>
    /\ reply = [c \in Callers |-> NoReply]
    /\ pc = [c \in Callers |-> "idle"]
    /\ ret = NoRet
    /\ actor_alive = TRUE
    /\ poisoned = FALSE
    /\ shutdown = [cmd_tx_dropped |-> FALSE, signal_exited |-> FALSE]
    /\ pid = with_config(FfiPidConfigDefault)
    /\ safety_state = SafetyMonitorNew
    /\ rw = [ writer |-> FALSE, readers |-> {}, pending |-> None,
              copy |-> [c \in Callers |-> None], published |-> {state_tx} ]
    /\ now = t
    /\ ops = budget

Start(budget) == StartWith(budget, SafetyMonitorNew, 1000)

Init == Start(MaxOps)

-----------------------------------------------------------------------------
(* ZenOneRuntime: the caller-facing methods *)

Cmd(type, arg) == [type |-> type, arg |-> arg]

\* a send on a channel of capacity 1, which waits while the channel is full
SendBounded(cmd) ==
    /\ Len(cmd_q) < 1
    /\ cmd_q' = IF actor_alive THEN Append(cmd_q, cmd) ELSE cmd_q

\* self.cmd_tx.send(cmd): fails (and drops cmd) once the receiver is gone
Send(cmd) == cmd_q' = IF actor_alive THEN Append(cmd_q, cmd) ELSE cmd_q

CanCall(c) == pc[c] = "idle" /\ ops > 0 /\ ~shutdown.cmd_tx_dropped

Returns(c, kind, val) ==
    /\ ret' = [kind |-> kind, val |-> val]
    /\ ops' = ops - 1

CallerFrame == <<inner, safety, state_tx, latest_frame, signal_q, event_q,
                 actor_alive, poisoned, rw, shutdown, pid, safety_state, now>>

\* self.state.read().unwrap() on a poisoned lock: the calling thread panics
Panics(c) ==
    /\ pc' = [pc EXCEPT ![c] = "panicked"]
    /\ ret' = [kind |-> "panic", val |-> 0]

\* a method that only enqueues one command
FireAndForget(c, cmd) ==
    /\ CanCall(c)
    /\ Send(cmd)
    /\ Returns(c, "unit", 0)
    /\ UNCHANGED <<CallerFrame, reply, pc>>

\* ZenOneRuntime::load_pattern
load_pattern(c, id) ==
    /\ CanCall(c)
    /\ IF id \in builtin_patterns
       THEN Send(Cmd("LoadPattern", id)) /\ Returns(c, "bool", TRUE)
       ELSE UNCHANGED cmd_q /\ Returns(c, "bool", FALSE)
    /\ UNCHANGED <<CallerFrame, reply, pc>>

\* ZenOneRuntime::start_session
start_session(c) ==
    /\ CanCall(c)
    /\ IF poisoned
       THEN Panics(c) /\ ops' = ops - 1 /\ UNCHANGED cmd_q
       ELSE /\ IF state_tx.is_locked
               THEN UNCHANGED cmd_q /\ Returns(c, "err", "SafetyViolation")
               ELSE Send(Cmd("StartSession", 0)) /\ Returns(c, "ok", 0)
            /\ UNCHANGED pc
    /\ UNCHANGED <<CallerFrame, reply>>

\* ZenOneRuntime::stop_session, up to the blocking rx.recv()
stop_session(c) ==
    /\ CanCall(c)
    /\ Send(Cmd("StopSession", c))
    /\ reply' = [reply EXCEPT ![c] = [buf |-> <<>>, tx |-> actor_alive]]
    /\ pc' = [pc EXCEPT ![c] = "stop_recv"]
    /\ ops' = ops - 1
    /\ UNCHANGED <<CallerFrame, ret>>

DefaultStats ==
    [duration_sec |-> "0.0", cycles_completed |-> 0, pattern_id |-> "",
     avg_heart_rate |-> None]

\* ZenOneRuntime::stop_session: rx.recv().unwrap_or(default); recv returns once
\* a reply is buffered or the sender is dropped, and the default, which is
\* built before unwrap_or is entered, reads the snapshot through get_belief
stop_session_recv(c) ==
    /\ pc[c] = "stop_recv"
    /\ reply[c].buf # <<>> \/ ~reply[c].tx
    /\ IF poisoned
       THEN Panics(c)
       ELSE /\ pc' = [pc EXCEPT ![c] = "idle"]
            /\ ret' = [kind |-> "stats",
                       val |-> IF reply[c].buf # <<>> THEN Head(reply[c].buf)
                               ELSE DefaultStats]
    /\ reply' = [reply EXCEPT ![c] = NoReply]
    /\ UNCHANGED <<CallerFrame, cmd_q, ops>>

\* ZenOneRuntime::pause_session
pause_session(c) == FireAndForget(c, Cmd("PauseSession", 0))

\* ZenOneRuntime::resume_session
resume_session(c) == FireAndForget(c, Cmd("ResumeSession", 0))

\* ZenOneRuntime::reset_safety_lock
reset_safety_lock(c) == FireAndForget(c, Cmd("ResetSafetyLock", 0))

\* ZenOneRuntime::update_context
update_context(c) == FireAndForget(c, Cmd("UpdateContext", 0))

\* ZenOneRuntime::emergency_halt
emergency_halt(c) == FireAndForget(c, Cmd("EmergencyHalt", 0))

\* ZenOneRuntime::process_frame
process_frame(c) ==
    /\ CanCall(c)
    /\ Send(Cmd("ProcessFrame", 0))
    /\ Returns(c, "frame", latest_frame)
    /\ UNCHANGED <<CallerFrame, reply, pc>>

\* ZenOneRuntime::tick
tick(c) ==
    /\ CanCall(c)
    /\ Send(Cmd("Tick", 0))
    /\ Returns(c, "frame", latest_frame)
    /\ UNCHANGED <<CallerFrame, reply, pc>>

\* ZenOneRuntime::adjust_tempo
adjust_tempo(c, scale) ==
    LET clamped == FClamp(scale, MIN_TEMPO, MAX_TEMPO) IN
    /\ CanCall(c)
    /\ Send(Cmd("AdjustTempo", clamped))
    /\ Returns(c, "ok", clamped)
    /\ UNCHANGED <<CallerFrame, reply, pc>>

\* ZenOneRuntime::get_state
get_state(c) ==
    /\ CanCall(c)
    /\ IF poisoned
       THEN Panics(c) /\ ops' = ops - 1
       ELSE Returns(c, "state", state_tx) /\ UNCHANGED pc
    /\ UNCHANGED <<CallerFrame, cmd_q, reply>>

-----------------------------------------------------------------------------
(* Wall clock: Utc::now() is read by verify_command only; a reading is the  *)
(* previous one or later                                                    *)

ClockSteps == {1000, 60000}

Advances(t) == ((t - 1000) \div 60000) + (((t - 1000) % 60000) \div 1000)

Readings ==
    {now} \cup { now + d : d \in {x \in ClockSteps : Advances(now) < MaxAdvances} }

-----------------------------------------------------------------------------
(* RuntimeActor::run: one message per iteration, from either channel *)

Self ==
    [ inner |-> inner, safety |-> safety, state_tx |-> state_tx,
      latest_frame |-> latest_frame, signal_tx |-> signal_q ]

\* the actor after a handler; what the handler sent on signal_tx is dropped
\* (`let _ = self.signal_tx.send(..)`) when the SignalActor's receiver is gone
Commit(r) ==
    /\ inner' = r.inner
    /\ safety' = r.safety
    /\ state_tx' = r.state_tx
    /\ latest_frame' = r.latest_frame
    /\ signal_q' = IF shutdown.signal_exited THEN signal_q ELSE r.signal_tx

\* a receive that takes the newest queued command instead of the oldest
RecvNewest(type) ==
    /\ actor_alive
    /\ cmd_q # <<>>
    /\ Head(cmd_q).type = type
    /\ cmd_q' = SubSeq(cmd_q, 1, Len(cmd_q) - 1)

\* recv(self.cmd_rx) -> Ok(cmd), with cmd of the given type
Recv(type) ==
    /\ actor_alive
    /\ cmd_q # <<>>
    /\ Head(cmd_q).type = type
    /\ cmd_q' = Tail(cmd_q)

ActorFrame == <<event_q, pc, ret, actor_alive, poisoned, rw, shutdown, pid, safety_state, ops>>

DoStart ==
    /\ Recv("StartSession")
    /\ \E ts \in Readings : Commit(handle_start(Self, ts)) /\ now' = ts
    /\ UNCHANGED <<ActorFrame, reply>>

\* handle_stop(reply_tx): reply_tx.send(stats), then reply_tx is dropped
DoStop ==
    /\ Recv("StopSession")
    /\ LET c == Head(cmd_q).arg IN
       reply' = [reply EXCEPT ![c] =
                    [buf |-> Append(@.buf, SessionStats(Self)), tx |-> FALSE]]
    /\ Commit(handle_stop(Self))
    /\ UNCHANGED <<ActorFrame, now>>

DoPause ==
    /\ Recv("PauseSession")
    /\ Commit(handle_pause(Self))
    /\ UNCHANGED <<ActorFrame, reply, now>>

DoResume ==
    /\ Recv("ResumeSession")
    /\ Commit(handle_resume(Self))
    /\ UNCHANGED <<ActorFrame, reply, now>>

DoLoadPattern ==
    /\ Recv("LoadPattern")
    /\ \E ts \in Readings : Commit(handle_load_pattern(Self, Head(cmd_q).arg, ts)) /\ now' = ts
    /\ UNCHANGED <<ActorFrame, reply>>

DoProcessFrame ==
    /\ Recv("ProcessFrame")
    /\ Commit(handle_process_frame(Self))
    /\ UNCHANGED <<ActorFrame, reply, now>>

DoTick ==
    /\ Recv("Tick")
    /\ \E pm \in PhaseMachineTick(inner.phase_machine), u \in Uncertainties :
          Commit(handle_tick(Self, pm, u))
    /\ UNCHANGED <<ActorFrame, reply, now>>

DoResetSafetyLock ==
    /\ Recv("ResetSafetyLock")
    /\ Commit(handle_reset_safety_lock(Self))
    /\ UNCHANGED <<ActorFrame, reply, now>>

DoAdjustTempo ==
    /\ Recv("AdjustTempo")
    /\ \E ts \in Readings : Commit(handle_adjust_tempo(Self, Head(cmd_q).arg, ts)) /\ now' = ts
    /\ UNCHANGED <<ActorFrame, reply>>

DoUpdateContext ==
    /\ Recv("UpdateContext")
    /\ Commit(handle_update_context(Self))
    /\ UNCHANGED <<ActorFrame, reply, now>>

DoEmergencyHalt ==
    /\ Recv("EmergencyHalt")
    /\ Commit(handle_emergency_halt(Self))
    /\ UNCHANGED <<ActorFrame, reply, now>>

\* RuntimeActor::handle_command
handle_command ==
    \/ DoStart \/ DoStop \/ DoPause \/ DoResume \/ DoLoadPattern
    \/ DoProcessFrame \/ DoTick \/ DoResetSafetyLock \/ DoAdjustTempo
    \/ DoUpdateContext \/ DoEmergencyHalt

\* recv(self.signal_rx) -> Ok(event)
DoSignalEvent ==
    /\ actor_alive
    /\ event_q # <<>>
    /\ Commit(handle_signal_event(Self, Head(event_q)))
    /\ event_q' = Tail(event_q)
    /\ UNCHANGED <<cmd_q, reply, pc, ret, actor_alive, poisoned, rw, shutdown, pid,
                   safety_state, now, ops>>

\* the actor thread ends by a panic while it handles a Tick: in the phase
\* machine or the engine (no lock held), or in update_shared_state, where
\* get_engine_belief -> from_belief_array unwraps partial_cmp (None on a NaN
\* probability) with the write guard of the snapshot alive, which poisons the
\* lock.  The thread's receivers are dropped, and with the queued commands
\* their reply senders
ActorPanic ==
    /\ actor_alive
    /\ cmd_q # <<>>
    /\ Head(cmd_q).type = "Tick"
    /\ actor_alive' = FALSE
    /\ poisoned' \in BOOLEAN
    /\ cmd_q' = <<>>
    /\ reply' = [c \in Callers |-> [reply[c] EXCEPT !.tx = FALSE]]
    /\ UNCHANGED <<inner, safety, state_tx, latest_frame, signal_q, event_q,
                   pc, ret, rw, shutdown, pid, safety_state, now, ops>>

-----------------------------------------------------------------------------
(* SignalActor::run *)

SignalStep ==
    /\ ~shutdown.signal_exited
    /\ signal_q # <<>>
    /\ signal_q' = Tail(signal_q)
    /\ IF Head(signal_q) = "ProcessSample"
       THEN \/ \E hr \in HrValues : event_q' = Append(event_q, hr)
            \/ UNCHANGED event_q
       ELSE UNCHANGED event_q
    /\ UNCHANGED <<inner, safety, state_tx, latest_frame, cmd_q, reply, pc, ret,
                   actor_alive, poisoned, rw, shutdown, pid, safety_state, now, ops>>

-----------------------------------------------------------------------------

Call(c) ==
    \/ start_session(c)
    \/ stop_session(c)
    \/ stop_session_recv(c)
    \/ pause_session(c)
    \/ resume_session(c)
    \/ reset_safety_lock(c)
    \/ update_context(c)
    \/ emergency_halt(c)
    \/ process_frame(c)
    \/ tick(c)
    \/ get_state(c)
    \/ \E id \in builtin_patterns \cup UnknownPatternIds : load_pattern(c, id)
    \/ \E scale \in RequestedScales : adjust_tempo(c, scale)

Next ==
    \/ \E c \in Callers : Call(c)
    \/ handle_command
    \/ DoSignalEvent
    \/ SignalStep

Spec == Init /\ [][Next]_vars

-----------------------------------------------------------------------------
(* CoreSpec: longer runs over the session, lock, pattern and tempo commands *)

CoreCall(c) ==
    \/ start_session(c)
    \/ stop_session(c)
    \/ stop_session_recv(c)
    \/ pause_session(c)
    \/ reset_safety_lock(c)
    \/ emergency_halt(c)
    \/ tick(c)
    \/ \E id \in builtin_patterns : load_pattern(c, id)
    \/ \E scale \in RequestedScales : adjust_tempo(c, scale)

CoreNext ==
    \/ \E c \in Callers : CoreCall(c)
    \/ DoStart \/ DoStop \/ DoPause \/ DoLoadPattern \/ DoTick
    \/ DoResetSafetyLock \/ DoAdjustTempo \/ DoEmergencyHalt

CoreInit == Start(MaxCoreOps)

CoreSpec == CoreInit /\ [][CoreNext]_vars

-----------------------------------------------------------------------------
(* LiveSpec: sessions, ticks and stops with a runtime thread that may panic. *)
(* The actor thread is scheduled whenever a command it can handle is queued, *)
(* and a caller blocked in rx.recv() is woken by a reply or a disconnection  *)

LiveCall(c) ==
    \/ start_session(c)
    \/ stop_session(c)
    \/ stop_session_recv(c)
    \/ tick(c)

LiveActor == DoStart \/ DoStop \/ DoTick

LiveNext ==
    \/ \E c \in Callers : LiveCall(c)
    \/ DoStart \/ DoStop \/ DoTick
    \/ ActorPanic

LiveInit == Start(MaxLiveOps)

LiveSpec ==
    /\ LiveInit
    /\ [][LiveNext]_vars
    /\ WF_vars(LiveActor)
    /\ \A c \in Callers : WF_vars(stop_session_recv(c))

-----------------------------------------------------------------------------
(* StreamSpec: two callers submitting camera samples and ticks to a session, *)
(* with the SignalActor turning samples into heart-rate results              *)

StreamCall(c) ==
    \/ start_session(c)
    \/ process_frame(c)
    \/ tick(c)

StreamNext ==
    \/ \E c \in Callers : StreamCall(c)
    \/ DoStart \/ DoProcessFrame \/ DoTick
    \/ DoSignalEvent
    \/ SignalStep

StreamInit == Start(MaxStreamOps)

StreamSpec == StreamInit /\ [][StreamNext]_vars

-----------------------------------------------------------------------------
(* SnapSpec: the snapshot's RwLock at the grain of its guards.  Storing a    *)
(* FfiRuntimeState through the write guard and cloning one through a read    *)
(* guard are copies of many words: each is taken in two parts, so that what  *)
(* the lock excludes is visible                                              *)

FirstPart == {"status", "pattern_id", "phase", "phase_progress", "cycles_completed"}

\* a value with the first part of `a` and the rest of `b`
Mix(a, b) == [f \in DOMAIN a |-> IF f \in FirstPart THEN a[f] ELSE b[f]]

\* a write lock that is granted while read guards are alive
CanWriteOverReaders == ~rw.writer

\* self.state_tx.write(): granted when no guard is alive
CanWrite == ~rw.writer /\ rw.readers = {}

\* self.state.read(): granted when no write guard is alive
CanRead == ~rw.writer

SnapCommands == {"EmergencyHalt", "ResetSafetyLock", "Tick"}

\* the actor after handle_command(cmd), for the commands of SnapSpec
SnapHandle(cmd) ==
    CASE cmd.type = "EmergencyHalt" -> {handle_emergency_halt(Self)}
      [] cmd.type = "ResetSafetyLock" -> {handle_reset_safety_lock(Self)}
      [] cmd.type = "Tick" ->
           { handle_tick(Self, pm, u) :
               pm \in PhaseMachineTick(inner.phase_machine), u \in Uncertainties }

\* a handler up to the middle of `*guard = FfiRuntimeState { .. }`
ActorWriteBegin ==
    /\ actor_alive
    /\ cmd_q # <<>>
    /\ Head(cmd_q).type \in SnapCommands
    /\ CanWrite
    /\ \E r \in SnapHandle(Head(cmd_q)) :
          /\ inner' = r.inner
          /\ safety' = r.safety
          /\ signal_q' = r.signal_tx
          /\ state_tx' = Mix(r.state_tx, state_tx)
          /\ rw' = [rw EXCEPT !.writer = TRUE, !.pending = Some(r)]
    /\ cmd_q' = Tail(cmd_q)
    /\ UNCHANGED <<latest_frame, event_q, reply, pc, ret, actor_alive, poisoned,
                   shutdown, pid, safety_state, now, ops>>

\* the rest of the store, the drop of the write guard, and the handler's end
ActorWriteEnd ==
    /\ rw.writer
    /\ state_tx' = rw.pending[1].state_tx
    /\ latest_frame' = rw.pending[1].latest_frame
    /\ rw' = [rw EXCEPT !.writer = FALSE, !.pending = None,
                        !.published = @ \cup {rw.pending[1].state_tx}]
    /\ UNCHANGED <<inner, safety, cmd_q, signal_q, event_q, reply, pc, ret,
                   actor_alive, poisoned, shutdown, pid, safety_state, now, ops>>

\* ZenOneRuntime::get_state: self.state.read().unwrap() and half of clone()
get_state_begin(c) ==
    /\ CanCall(c)
    /\ ~poisoned
    /\ CanRead
    /\ rw' = [rw EXCEPT !.readers = @ \cup {c}, !.copy[c] = Some(state_tx)]
    /\ pc' = [pc EXCEPT ![c] = "reading"]
    /\ ops' = ops - 1
    /\ UNCHANGED <<inner, safety, state_tx, latest_frame, cmd_q, signal_q,
                   event_q, reply, ret, actor_alive, poisoned, shutdown, pid, safety_state, now>>

\* the rest of clone(), the drop of the read guard, and the return
get_state_end(c) ==
    /\ pc[c] = "reading"
    /\ ret' = [kind |-> "state", val |-> Mix(rw.copy[c][1], state_tx)]
    /\ rw' = [rw EXCEPT !.readers = @ \ {c}, !.copy[c] = None]
    /\ pc' = [pc EXCEPT ![c] = "idle"]
    /\ UNCHANGED <<inner, safety, state_tx, latest_frame, cmd_q, signal_q,
                   event_q, reply, actor_alive, poisoned, shutdown, pid, safety_state, now, ops>>

SnapCall(c) ==
    \/ emergency_halt(c)
    \/ reset_safety_lock(c)
    \/ tick(c)
    \/ get_state_begin(c)
    \/ get_state_end(c)

SnapNext ==
    \/ \E c \in Callers : SnapCall(c)
    \/ ActorWriteBegin
    \/ ActorWriteEnd

SnapInit == Start(MaxSnapOps)

SnapSpec == SnapInit /\ [][SnapNext]_vars

-----------------------------------------------------------------------------
(* FifoSpec: two callers feeding both of the actor's channels.  Both loops   *)
(* are threads of their own: each takes its next message when one is ready,  *)
(* and select! picks among ready channels at random                          *)

FifoCall(c) ==
    \/ tick(c)
    \/ process_frame(c)
    \/ emergency_halt(c)

FifoActor == DoTick \/ DoProcessFrame \/ DoEmergencyHalt

FifoNext ==
    \/ \E c \in Callers : FifoCall(c)
    \/ DoTick \/ DoProcessFrame \/ DoEmergencyHalt
    \/ DoSignalEvent
    \/ SignalStep

FifoInit == Start(MaxFifoOps)

FifoSpec ==
    /\ FifoInit
    /\ [][FifoNext]_vars
    /\ WF_vars(FifoActor)
    /\ WF_vars(DoSignalEvent)
    /\ WF_vars(SignalStep)

-----------------------------------------------------------------------------
(* PauseSpec: starting, pausing, resuming and halting a session *)

PauseCall(c) ==
    \/ start_session(c)
    \/ pause_session(c)
    \/ resume_session(c)
    \/ emergency_halt(c)

PauseNext ==
    \/ \E c \in Callers : PauseCall(c)
    \/ DoStart \/ DoPause \/ DoResume \/ DoEmergencyHalt

PauseInit == Start(MaxPauseOps)

PauseSpec == PauseInit /\ [][PauseNext]_vars

-----------------------------------------------------------------------------
(* ShutSpec: the handle is dropped after some ticks and samples.  cmd_tx is  *)
(* the only sender of the command channel and the actor's signal_tx the only *)
(* sender of the SignalActor's channel; a recv on a channel without senders  *)
(* returns Err once the channel is empty                                     *)

\* the last reference to the ZenOneRuntime goes, and cmd_tx with it
DropRuntime ==
    /\ ~shutdown.cmd_tx_dropped
    /\ \A c \in Callers : pc[c] = "idle"
    /\ shutdown' = [shutdown EXCEPT !.cmd_tx_dropped = TRUE]
    /\ UNCHANGED <<inner, safety, state_tx, latest_frame, cmd_q, signal_q,
                   event_q, reply, pc, ret, actor_alive, poisoned, rw, pid, safety_state, now, ops>>

\* an actor loop that takes Err from recv(self.cmd_rx) and goes on waiting
ActorIgnoresClose ==
    /\ actor_alive
    /\ shutdown.cmd_tx_dropped
    /\ cmd_q = <<>>
    /\ UNCHANGED vars

\* RuntimeActor::run: recv(self.cmd_rx) -> Err(_) => break; the actor, and
\* its signal_tx, are dropped as the thread ends
ActorExit ==
    /\ actor_alive
    /\ shutdown.cmd_tx_dropped
    /\ cmd_q = <<>>
    /\ actor_alive' = FALSE
    /\ UNCHANGED <<inner, safety, state_tx, latest_frame, cmd_q, signal_q,
                   event_q, reply, pc, ret, poisoned, rw, shutdown, pid, safety_state, now, ops>>

\* SignalActor::run: `while let Ok(cmd) = self.cmd_rx.recv()` ends
SignalExit ==
    /\ ~shutdown.signal_exited
    /\ ~actor_alive
    /\ signal_q = <<>>
    /\ shutdown' = [shutdown EXCEPT !.signal_exited = TRUE]
    /\ UNCHANGED <<inner, safety, state_tx, latest_frame, cmd_q, signal_q,
                   event_q, reply, pc, ret, actor_alive, poisoned, rw, pid, safety_state, now, ops>>

ShutCall(c) ==
    \/ tick(c)
    \/ process_frame(c)

ShutActor == DoTick \/ DoProcessFrame \/ ActorExit

ShutSignal == SignalStep \/ SignalExit

ShutNext ==
    \/ \E c \in Callers : ShutCall(c)
    \/ DropRuntime
    \/ DoTick \/ DoProcessFrame \/ ActorExit
    \/ DoSignalEvent
    \/ SignalStep \/ SignalExit

ShutInit == Start(MaxShutOps)

ShutSpec ==
    /\ ShutInit
    /\ [][ShutNext]_vars
    /\ WF_vars(ShutActor)
    /\ WF_vars(ShutSignal)

-----------------------------------------------------------------------------
(* StatsSpec: a session that collects heart-rate results and cycles and is   *)
(* then stopped                                                              *)

StatsCall(c) ==
    \/ start_session(c)
    \/ stop_session(c)
    \/ stop_session_recv(c)
    \/ process_frame(c)
    \/ tick(c)

StatsNext ==
    \/ \E c \in Callers : StatsCall(c)
    \/ DoStart \/ DoStop \/ DoProcessFrame \/ DoTick
    \/ DoSignalEvent
    \/ SignalStep

StatsInit == Start(MaxStatsOps)

StatsSpec == StatsInit /\ [][StatsNext]_vars

-----------------------------------------------------------------------------
(* PanicSpec: the gated commands, halts and lock resets of a runtime whose   *)
(* engine may report a high belief uncertainty                               *)

PanicCall(c) ==
    \/ start_session(c)
    \/ reset_safety_lock(c)
    \/ emergency_halt(c)
    \/ tick(c)
    \/ load_pattern(c, "box")
    \/ adjust_tempo(c, 50)

PanicNext ==
    \/ \E c \in Callers : PanicCall(c)
    \/ DoStart \/ DoLoadPattern \/ DoTick
    \/ DoResetSafetyLock \/ DoAdjustTempo \/ DoEmergencyHalt

PanicInit == Start(MaxPanicOps)

PanicSpec == PanicInit /\ [][PanicNext]_vars

-----------------------------------------------------------------------------
(* SampleSpec: samples and ticks with a SignalActor thread that may end by a *)
(* panic in the rPPG processor.  select! picks among the ready channels at   *)
(* random, so a queued command is handled even while signal_rx is closed     *)

\* the SignalActor thread panics in rppg.add_sample / rppg.process while it
\* handles a sample: its receiver is dropped with the commands still queued,
\* and so is its event_tx (results already sent stay readable)
SignalPanic ==
    /\ ~shutdown.signal_exited
    /\ signal_q # <<>>
    /\ Head(signal_q) = "ProcessSample"
    /\ signal_q' = <<>>
    /\ shutdown' = [shutdown EXCEPT !.signal_exited = TRUE]
    /\ UNCHANGED <<inner, safety, state_tx, latest_frame, cmd_q, event_q, reply,
                   pc, ret, actor_alive, poisoned, rw, pid, safety_state, now, ops>>

\* RuntimeActor::run: recv(self.signal_rx) -> Err(_): logged, the loop goes on
DoSignalClosed ==
    /\ actor_alive
    /\ shutdown.signal_exited
    /\ event_q = <<>>
    /\ UNCHANGED vars

SampleCall(c) ==
    \/ process_frame(c)
    \/ tick(c)

SampleCommands == DoProcessFrame \/ DoTick

SampleNext ==
    \/ \E c \in Callers : SampleCall(c)
    \/ SampleCommands
    \/ DoSignalEvent
    \/ DoSignalClosed
    \/ SignalStep
    \/ SignalPanic

SampleInit == Start(MaxSampleOps)

SampleSpec ==
    /\ SampleInit
    /\ [][SampleNext]_vars
    /\ WF_vars(SampleCommands)
    /\ WF_vars(DoSignalEvent)
    /\ WF_vars(SignalStep)

-----------------------------------------------------------------------------
(* The SafetyMonitor driven on its own, as the FFI object and the Tauri      *)
(* commands expose it: the caller supplies each event and runtime state.     *)
(* `now` counts the events checked so far and stamps the next one.           *)

\* the number of events checked before the explored calls
PastChecks == {0, 99, 100}

\* a monitor that has checked n unremarkable events, stamped 1..n
CheckedMonitor(n) ==
    [ SafetyMonitorNew EXCEPT
        !.trace = [i \in 1..n |-> [event_type |-> "Tick", timestamp_ms |-> i]] ]

\* the event types a caller passes
MonitorEventTypes == {"StartSession", "LoadPattern", "AdjustTempo", "EmergencyHalt"}

\* the runtime states a caller passes
MonitorStates ==
    { [ status |-> st,
        pattern_id |-> "4-7-8",
        phase |-> Phases[PhaseMachineNew.phase],
        phase_progress |-> 0,
        cycles_completed |-> 0,
        tempo_scale |-> t,
        uncertainty |-> u,
        is_locked |-> (st = "SafetyLock"),
        trauma_count |-> 0 ] :
      st \in {"Idle", "SafetyLock"}, t \in {100, 150}, u \in Uncertainties }

MonitorFrame == <<inner, state_tx, latest_frame, cmd_q, signal_q, event_q, reply,
                  pc, actor_alive, poisoned, rw, shutdown, pid, safety_state>>

\* SafetyMonitor::check_event(event, runtime_state)
MonitorCheck ==
    /\ ops > 0
    /\ \E type \in MonitorEventTypes, rs \in MonitorStates :
         LET event == [event_type |-> type, timestamp_ms |-> now + 1]
             result == check_event(safety, event, rs)
         IN  /\ safety' = result.safety
             /\ ret' = [ kind |-> "check",
                         val |-> [ event |-> event,
                                   state |-> rs,
                                   is_safe |-> result.is_safe,
                                   violations |-> result.violations ] ]
    /\ now' = now + 1
    /\ ops' = ops - 1
    /\ UNCHANGED MonitorFrame

\* SafetyMonitor::clear_violations()
MonitorClear ==
    /\ ops > 0
    /\ safety' = clear_violations(safety)
    /\ ret' = [kind |-> "unit", val |-> 0]
    /\ ops' = ops - 1
    /\ UNCHANGED <<MonitorFrame, now>>

MonitorNext == MonitorCheck \/ MonitorClear

MonitorInit == \E n \in PastChecks : StartWith(MaxChecks, CheckedMonitor(n), n)

MonitorSpec == MonitorInit /\ [][MonitorNext]_vars

\* the number of events checked since an EmergencyHalt event, that event included
HaltAges == {8, 9, 10}

\* a monitor that has checked an EmergencyHalt event and then n - 1
\* unremarkable events, stamped 1..n
HaltedMonitor(n) ==
    [ SafetyMonitorNew EXCEPT
        !.trace = [ i \in 1..n |->
                      [ event_type |-> IF i = 1 THEN "EmergencyHalt" ELSE "Tick",
                        timestamp_ms |-> i ] ] ]

HaltInit == \E n \in HaltAges : StartWith(MaxChecks, HaltedMonitor(n), n)

\* MonitorSpec from a monitor with an EmergencyHalt event in its trace
HaltSpec == HaltInit /\ [][MonitorNext]_vars

-----------------------------------------------------------------------------
(* TauriSpec: the Tauri application.  It manages a ZenOneRuntime and, next   *)
(* to it, a SafetyMonitor of its own (SafetyMonitorState), which the         *)
(* check_safety_event and clear_safety_violations commands use.              *)

TauriFrame == <<inner, safety, state_tx, latest_frame, cmd_q, signal_q, event_q,
                reply, pc, actor_alive, poisoned, rw, shutdown, pid, now>>

\* check_safety_event that checks on the monitor of the runtime
check_safety_event_on_runtime_monitor ==
    /\ ops > 0
    /\ \E type \in MonitorEventTypes :
         LET event == [event_type |-> type, timestamp_ms |-> now]
             state == state_tx
             result == check_event(safety, event, state)
         IN  /\ safety' = result.safety
             /\ ret' = [ kind |-> "check_safety_event",
                         val |-> [ is_safe |-> result.is_safe,
                                   violations |-> result.violations ] ]
    /\ ops' = ops - 1
    /\ UNCHANGED <<inner, state_tx, latest_frame, cmd_q, signal_q, event_q, reply,
                   pc, actor_alive, poisoned, rw, shutdown, pid, safety_state, now>>

\* commands::check_safety_event(runtime_state, safety_state, event)
check_safety_event ==
    /\ ops > 0
    /\ \E type \in MonitorEventTypes :
         LET event == [event_type |-> type, timestamp_ms |-> now]
             state == state_tx
             result == check_event(safety_state, event, state)
         IN  /\ safety_state' = result.safety
             /\ ret' = [ kind |-> "check_safety_event",
                         val |-> [ is_safe |-> result.is_safe,
                                   violations |-> result.violations ] ]
    /\ ops' = ops - 1
    /\ UNCHANGED TauriFrame

\* commands::clear_safety_violations(state)
clear_safety_violations ==
    /\ ops > 0
    /\ safety_state' = clear_violations(safety_state)
    /\ ret' = [kind |-> "clear_safety_violations", val |-> 0]
    /\ ops' = ops - 1
    /\ UNCHANGED TauriFrame

TauriCall(c) ==
    \/ start_session(c)
    \/ load_pattern(c, "box")
    \/ adjust_tempo(c, 50)

TauriNext ==
    \/ \E c \in Callers : TauriCall(c)
    \/ check_safety_event
    \/ clear_safety_violations
    \/ DoStart \/ DoLoadPattern \/ DoAdjustTempo

TauriInit == Start(MaxTauriOps)

TauriSpec == TauriInit /\ [][TauriNext]_vars

-----------------------------------------------------------------------------
(* The PidController driven on its own, as the FFI object and the Tauri      *)
(* commands expose it.  `ret` records each call with its arguments.          *)

\* error arguments: zero, small, saturating, NaN
PidErrors == {Fin(0), Fin(Unit), Fin(0 - 12 * Unit), F32NaN}

\* dt arguments: half a second, zero, negative, NaN, infinite
PidDts == {Fin(5000), Fin(0), Fin(0 - Unit), F32NaN, Inf(1)}

\* arguments of set_gains
KpArgs == {None, Some(Fin(Unit)), Some(F32NaN)}

KiArgs == {None, Some(F32NaN)}

KdArgs == {None, Some(Fin(0))}

PidFrame == <<inner, safety, state_tx, latest_frame, cmd_q, signal_q, event_q,
              reply, pc, actor_alive, poisoned, rw, shutdown, safety_state, now>>

\* PidController::compute(error, dt)
PidCompute ==
    /\ ops > 0
    /\ \E error \in PidErrors, dt \in PidDts :
         LET r == compute(pid, error, dt)
         IN  /\ pid' = r.pid
             /\ ret' = [ kind |-> "compute",
                         val |-> [error |-> error, dt |-> dt, out |-> r.out] ]
    /\ ops' = ops - 1
    /\ UNCHANGED PidFrame

\* PidController::reset()
PidReset ==
    /\ ops > 0
    /\ pid' = reset(pid)
    /\ ret' = [kind |-> "reset", val |-> 0]
    /\ ops' = ops - 1
    /\ UNCHANGED PidFrame

\* PidController::set_gains(kp, ki, kd)
PidSetGains ==
    /\ ops > 0
    /\ \E kp \in KpArgs, ki \in KiArgs, kd \in KdArgs :
         /\ pid' = set_gains(pid, kp, ki, kd)
         /\ ret' = [kind |-> "set_gains", val |-> [kp |-> kp, ki |-> ki, kd |-> kd]]
    /\ ops' = ops - 1
    /\ UNCHANGED PidFrame

PidNext == PidCompute \/ PidReset \/ PidSetGains

PidInit == Start(MaxPidOps)

PidSpec == PidInit /\ [][PidNext]_vars

-----------------------------------------------------------------------------
(* Properties *)

FInRange(x, lo, hi) == x # NaN /\ lo <= x /\ x <= hi

\* the violations the monitor produces for a command checked at time ts
GateViolations(type, ts) ==
    check_event(safety, [event_type |-> type, timestamp_ms |-> ts], state_tx).violations

HasSevere(vs) == \E i \in 1..Len(vs) : vs[i].severity \in {"Error", "Critical"}

Logged(name) ==
    \E i \in 1..Len(safety.violations) : safety.violations[i].spec_name = name

\* what a dropped command must leave alone
Guarded(in) ==
    <<in.status, in.session, in.current_pattern_id, in.phase_machine, in.tempo_scale>>

\* C1: the tempo_scale of every published snapshot lies in [0.8, 1.4]
C1_PublishedTempoInBounds == FInRange(state_tx.tempo_scale, MIN_TEMPO, MAX_TEMPO)

\* C2: a StartSession processed while the lock flag is engaged leaves the status
\* as it was (never Running; SafetyLock stays SafetyLock) and creates no session,
\* and start_session returns SafetyViolation, enqueuing nothing, whenever the
\* published snapshot shows the lock engaged
C2_LockedStartRejected ==
    [][ /\ (DoStart /\ inner.safety_locked) =>
              /\ inner'.status = inner.status
              /\ inner'.status # "Running"
              /\ (inner.status = "SafetyLock" => inner'.status = "SafetyLock")
              /\ inner'.session = inner.session
        /\ \A c \in Callers :
              (start_session(c) /\ state_tx.is_locked) =>
                  /\ ret' = [kind |-> "err", val |-> "SafetyViolation"]
                  /\ cmd_q' = cmd_q ]_vars

\* C2 witness: a StartSession was checked while the status was SafetyLock, the
\* lock holds, and a later start_session call has returned the error
C2_Witness ==
    /\ Logged("safety_lock_immutable")
    /\ inner.safety_locked
    /\ inner.status = "SafetyLock"
    /\ inner.session = None
    /\ ret.kind = "err"

\* C3: once the status is SafetyLock it stays SafetyLock under every message
\* except ResetSafetyLock
C3_SafetyLockSticky ==
    [][ (inner.status = "SafetyLock" /\ ~DoResetSafetyLock)
            => inner'.status = "SafetyLock" ]_vars

\* C4: every stop_session call eventually returns; each StopSession processed
\* puts exactly one reply in its caller's slot, with zero duration, zero cycles
\* and an empty pattern id when no session is active; and the call returns
\* statistics (the default ones when the runtime thread has exited without
\* replying) whenever its wait ends
C4_StopSessionReturns ==
    /\ \A c \in Callers : (pc[c] = "stop_recv") ~> (pc[c] = "idle")
    /\ [][ DoStop =>
              LET c == Head(cmd_q).arg IN
              /\ reply[c].buf = <<>>
              /\ Len(reply'[c].buf) = 1
              /\ inner.session = None =>
                    /\ reply'[c].buf[1].duration_sec = "0.0"
                    /\ reply'[c].buf[1].cycles_completed = 0
                    /\ reply'[c].buf[1].pattern_id = "" ]_vars
    /\ [][ \A c \in Callers :
              stop_session_recv(c) =>
                /\ pc'[c] = "idle"
                /\ ret'.kind = "stats"
                /\ (~actor_alive /\ reply[c].buf = <<>>) => ret'.val = DefaultStats
          ]_vars

\* the phase, progress and cycle fields of a snapshot or frame
PhaseFields(x) == <<x.phase, x.phase_progress, x.cycles_completed>>

\* the same fields as one state of the phase machine gives them
PhaseFieldsOf(pm) == <<Phases[pm.phase], cycle_phase_norm(pm), pm.cycle_index>>

\* C8: under interleaved SubmitSample and Tick calls and signal results, the
\* cycles_completed of the published snapshot never decreases, and the
\* snapshot, as the frame a Tick or a signal result publishes, has its phase,
\* progress and cycle fields from the one current state of the phase machine
C8_CyclesMonotonicAndConsistent ==
    [][ (DoTick \/ DoProcessFrame \/ DoSignalEvent \/ SignalStep) =>
          /\ state_tx'.cycles_completed >= state_tx.cycles_completed
          /\ inner'.phase_machine.cycle_index >= inner.phase_machine.cycle_index
          /\ PhaseFields(state_tx') = PhaseFieldsOf(inner'.phase_machine)
          /\ (DoTick \/ DoSignalEvent) =>
                 PhaseFields(latest_frame') = PhaseFieldsOf(inner'.phase_machine)
      ]_vars

\* C8 witness: in a session, a cycle was completed by a Tick and a heart-rate
\* result was published after it, with a sample still on its way
C8_Witness ==
    /\ inner.session # None
    /\ state_tx.cycles_completed = 1
    /\ latest_frame.cycles_completed = 1
    /\ latest_frame.heart_rate # None
    /\ inner.session[1].hr_samples # <<>>

\* C9: a completed read of the snapshot returns a value that one publish
\* wrote (or the initial value), never parts of two; read and write guards are
\* never alive together; and the snapshot changes in steps of the Session
\* Runtime only
C9_ReadersSeeOnePublish ==
    /\ [](ret.kind = "state" => ret.val \in rw.published)
    /\ [](rw.writer => rw.readers = {})
    /\ [][state_tx' # state_tx => (ActorWriteBegin \/ ActorWriteEnd)]_vars

\* C9 witness: a caller has read the snapshot of a halted runtime in full
\* while the next write was waiting for another reader's guard
C9_Witness ==
    /\ ret.kind = "state"
    /\ ret.val.is_locked
    /\ ret.val.status = "SafetyLock"
    /\ rw.readers # {}
    /\ cmd_q # <<>>

GatedStep(type) ==
    CASE type = "StartSession" -> DoStart
      [] type = "LoadPattern" -> DoLoadPattern
      [] type = "AdjustTempo" -> DoAdjustTempo

\* C5: a gated command whose check yields an Error or Critical violation mutates
\* nothing of status, session, pattern id, phase machine and tempo scale; one
\* whose check yields Warnings at most passes the gate (it takes effect unless
\* the lock flag stops it), and every violation of the check is in the log
C5_GateBlocksOnSevereOnly ==
    [][ \A type \in {"StartSession", "LoadPattern", "AdjustTempo"} :
          GatedStep(type) =>
            LET vs == GateViolations(type, now')
                arg == Head(cmd_q).arg
            IN  /\ safety'.violations = safety.violations \o vs
                /\ HasSevere(vs) => Guarded(inner') = Guarded(inner)
                /\ ~HasSevere(vs) =>
                     /\ type = "AdjustTempo" => inner'.tempo_scale = arg
                     /\ (type = "StartSession" /\ ~inner.safety_locked) =>
                            inner'.status = "Running" /\ inner'.session # None
                     /\ (type = "LoadPattern" /\ ~inner.safety_locked) =>
                            inner'.current_pattern_id = arg ]_vars

\* C5 witness: one command was dropped on a Critical violation and a later one
\* passed with a Warning
C5_Witness ==
    /\ Logged("panic_halt")
    /\ Logged("pattern_stability")
    /\ state_tx.trauma_count = 2
    /\ inner.current_pattern_id = "box"

\* C6: EmergencyHalt, processed in any state and never through the monitor,
\* leaves status SafetyLock and the lock flag engaged, in the actor and in the
\* published snapshot; processing it again changes nothing of the actor's state
C6_EmergencyHaltIdempotent ==
    [][ DoEmergencyHalt =>
          /\ inner'.status = "SafetyLock" /\ inner'.safety_locked
          /\ state_tx'.status = "SafetyLock" /\ state_tx'.is_locked
          /\ safety' = safety
          /\ LET once == handle_emergency_halt(Self)
                 twice == handle_emergency_halt(once)
             IN  twice.inner = once.inner /\ twice.state_tx = once.state_tx
          /\ (inner.status = "SafetyLock" /\ inner.safety_locked) => inner' = inner
      ]_vars

\* C6 witness: a running session was halted and a second EmergencyHalt is next
C6_Witness ==
    /\ inner.status = "SafetyLock"
    /\ inner.safety_locked
    /\ inner.session # None
    /\ cmd_q # <<>>
    /\ Head(cmd_q).type = "EmergencyHalt"

\* C7 as stated: a LoadPattern with a known id, processed with the lock not
\* engaged, takes effect, and records a pattern_stability Warning when less
\* than 60 s have passed since the previous LoadPattern
C7_LoadsTakeEffect ==
    [][ (DoLoadPattern /\ Head(cmd_q).arg \in builtin_patterns
            /\ ~inner.safety_locked) =>
          /\ inner'.current_pattern_id = Head(cmd_q).arg
          /\ state_tx'.pattern_id = Head(cmd_q).arg
          /\ (safety.last_pattern_change_ms > 0
                /\ now' - safety.last_pattern_change_ms < PatternStabilityMs) =>
                 safety'.violations =
                     Append(safety.violations, Violation("pattern_stability", "Warning"))
      ]_vars

\* C7 amended: the same for a LoadPattern whose check raises no Error or
\* Critical violation (the published belief uncertainty is not above 0.8)
C7_LoadsTakeEffectUnlessBlocked ==
    [][ (DoLoadPattern /\ Head(cmd_q).arg \in builtin_patterns
            /\ ~inner.safety_locked
            /\ ~HasSevere(GateViolations("LoadPattern", now'))) =>
          /\ inner'.current_pattern_id = Head(cmd_q).arg
          /\ state_tx'.pattern_id = Head(cmd_q).arg
          /\ (safety.last_pattern_change_ms > 0
                /\ now' - safety.last_pattern_change_ms < PatternStabilityMs) =>
                 safety'.violations =
                     Append(safety.violations, Violation("pattern_stability", "Warning"))
      ]_vars

\* C7 witness: two LoadPattern commands were checked less than 60 s apart, the
\* second recorded the Warning, and the pattern is the one it loaded
C7_Witness ==
    /\ Len(safety.trace) = 2
    /\ safety.trace[1].event_type = "LoadPattern"
    /\ safety.trace[2].event_type = "LoadPattern"
    /\ safety.trace[2].timestamp_ms - safety.trace[1].timestamp_ms < PatternStabilityMs
    /\ safety.violations = <<Violation("pattern_stability", "Warning")>>
    /\ state_tx.pattern_id = "box"
    /\ state_tx.trauma_count = 1

\* C10: with the lock flag engaged, StartSession, LoadPattern and AdjustTempo
\* leave status, session, pattern id, phase machine and tempo scale unchanged
C10_LockedRuntimeInert ==
    [][ ((DoStart \/ DoLoadPattern \/ DoAdjustTempo) /\ inner.safety_locked)
            => Guarded(inner') = Guarded(inner) ]_vars

\* the caller-facing operations other than stop_session
NonBlockingCall(c) ==
    \/ start_session(c)
    \/ pause_session(c)
    \/ resume_session(c)
    \/ reset_safety_lock(c)
    \/ update_context(c)
    \/ emergency_halt(c)
    \/ process_frame(c)
    \/ tick(c)
    \/ get_state(c)
    \/ \E id \in builtin_patterns \cup UnknownPatternIds : load_pattern(c, id)
    \/ \E scale \in RequestedScales : adjust_tempo(c, scale)

\* C11: a caller that is not inside a call can complete every operation other
\* than stop_session at once, whatever the command queue holds; such an
\* operation is one step that leaves the caller outside any call and changes
\* nothing the Session Runtime owns; stop_session alone leaves its caller
\* waiting, and that wait ends only by a reply or by the runtime's exit
C11_CallersNeverWait ==
    /\ [](\A c \in Callers : CanCall(c) =>
            /\ ENABLED start_session(c)
            /\ ENABLED pause_session(c)
            /\ ENABLED resume_session(c)
            /\ ENABLED reset_safety_lock(c)
            /\ ENABLED update_context(c)
            /\ ENABLED emergency_halt(c)
            /\ ENABLED process_frame(c)
            /\ ENABLED tick(c)
            /\ ENABLED get_state(c)
            /\ \A id \in builtin_patterns \cup UnknownPatternIds :
                   ENABLED load_pattern(c, id)
            /\ \A scale \in RequestedScales : ENABLED adjust_tempo(c, scale))
    /\ [][ \A c \in Callers :
             /\ NonBlockingCall(c) =>
                  /\ pc' = pc
                  /\ ops' = ops - 1
                  /\ UNCHANGED <<inner, safety, state_tx, latest_frame, reply>>
             /\ stop_session(c) => pc'[c] = "stop_recv" ]_vars
    /\ [](\A c \in Callers :
            (pc[c] = "stop_recv" /\ actor_alive /\ reply[c].buf = <<>>)
                => ~ENABLED stop_session_recv(c))

\* C11 witness: a call returned while two commands, the first a StopSession
\* whose caller is still waiting, were queued and not yet processed
C11_Witness ==
    /\ Len(cmd_q) = 2
    /\ Head(cmd_q).type = "StopSession"
    /\ pc[Head(cmd_q).arg] = "stop_recv"
    /\ ret.kind = "ok"

\* q2 is q1 with one element more at its tail
AppendedTo(q1, q2) == Len(q2) = Len(q1) + 1 /\ SubSeq(q2, 1, Len(q1)) = q1

\* the step is the handler of command cmd
Handles(cmd) ==
    CASE cmd.type = "StartSession" -> DoStart
      [] cmd.type = "StopSession" -> DoStop
      [] cmd.type = "PauseSession" -> DoPause
      [] cmd.type = "ResumeSession" -> DoResume
      [] cmd.type = "LoadPattern" -> DoLoadPattern
      [] cmd.type = "ProcessFrame" -> DoProcessFrame
      [] cmd.type = "Tick" -> DoTick
      [] cmd.type = "ResetSafetyLock" -> DoResetSafetyLock
      [] cmd.type = "AdjustTempo" -> DoAdjustTempo
      [] cmd.type = "UpdateContext" -> DoUpdateContext
      [] cmd.type = "EmergencyHalt" -> DoEmergencyHalt

\* C12: the command queue changes only by a caller's append at its tail or by
\* the runtime's removal of its head, and the step that removes the head is the
\* handler of that very command; the same holds for the signal-result queue;
\* every queued message is eventually handled; and when both queues hold a
\* message the runtime may take either
C12_FifoExactlyOnce ==
    /\ [][ /\ cmd_q' # cmd_q =>
                \/ AppendedTo(cmd_q, cmd_q') /\ \E c \in Callers : FifoCall(c)
                \/ /\ cmd_q # <<>>
                   /\ cmd_q' = Tail(cmd_q)
                   /\ Handles(Head(cmd_q))
           /\ handle_command => cmd_q # <<>> /\ cmd_q' = Tail(cmd_q)
           /\ event_q' # event_q =>
                \/ AppendedTo(event_q, event_q') /\ SignalStep
                \/ /\ event_q # <<>>
                   /\ event_q' = Tail(event_q)
                   /\ DoSignalEvent
                   /\ latest_frame'.heart_rate = Some(Head(event_q)) ]_vars
    /\ [](cmd_q # <<>> /\ event_q # <<>> =>
            ENABLED handle_command /\ ENABLED DoSignalEvent)
    /\ <>[](cmd_q = <<>> /\ event_q = <<>> /\ signal_q = <<>>)

\* C12 witness: with a heart-rate result waiting in the result queue, the
\* runtime has handled the older of two commands and the newer is still queued
C12_Witness ==
    /\ event_q # <<>>
    /\ Len(cmd_q) = 1
    /\ Head(cmd_q).type = "EmergencyHalt"
    /\ inner.phase_machine # PhaseMachineNew
    /\ ~inner.safety_locked
    /\ ops = 0

\* the step changes nothing of the runtime and publishes nothing
RuntimeNoOp ==
    UNCHANGED <<inner, safety, state_tx, latest_frame, signal_q, event_q, reply>>

\* C13: Pause processed in status Running changes the status to Paused and
\* nothing else of the runtime's state, and publishes it; Resume does the same
\* from Paused to Running; processed in any other status each changes nothing
\* and publishes nothing; the session is the same before and after both
C13_PauseResumeTransitions ==
    [][ /\ DoPause =>
             /\ IF inner.status = "Running"
                THEN /\ inner' = [inner EXCEPT !.status = "Paused"]
                     /\ state_tx'.status = "Paused"
                ELSE RuntimeNoOp
             /\ inner'.session = inner.session
        /\ DoResume =>
             /\ IF inner.status = "Paused"
                THEN /\ inner' = [inner EXCEPT !.status = "Running"]
                     /\ state_tx'.status = "Running"
                ELSE RuntimeNoOp
             /\ inner'.session = inner.session ]_vars

\* C13 witness: a running session was paused, and a Resume is the next command
C13_Witness ==
    /\ inner.status = "Paused"
    /\ state_tx.status = "Paused"
    /\ inner.session # None
    /\ cmd_q # <<>>
    /\ Head(cmd_q).type = "ResumeSession"

\* C14: the handler of LoadPattern leaves the runtime's state as it is for an
\* id outside the catalog, and load_pattern returns false for such an id and
\* enqueues nothing; a LoadPattern with a catalog id, not blocked and not
\* locked, sets the pattern id to it and the phase machine to a new one, and
\* changes nothing else; a blocked or locked one changes nothing
C14_LoadPatternOutcomes ==
    /\ [](\A id \in UnknownPatternIds, ts \in Readings :
            handle_load_pattern(Self, id, ts).inner = inner)
    /\ [][ /\ \A c \in Callers, id \in UnknownPatternIds :
                load_pattern(c, id) =>
                  /\ ret' = [kind |-> "bool", val |-> FALSE]
                  /\ cmd_q' = cmd_q
                  /\ inner' = inner
           /\ \A c \in Callers, id \in builtin_patterns :
                load_pattern(c, id) => ret' = [kind |-> "bool", val |-> TRUE]
           /\ DoLoadPattern =>
                LET id == Head(cmd_q).arg
                    blocked == HasSevere(GateViolations("LoadPattern", now'))
                IN  IF id \in builtin_patterns /\ ~blocked /\ ~inner.safety_locked
                    THEN /\ inner' = [inner EXCEPT !.current_pattern_id = id,
                                                   !.phase_machine = PhaseMachineNew]
                         /\ state_tx'.pattern_id = id
                    ELSE inner' = inner ]_vars

\* C14 witness: a LoadPattern of another catalog pattern took effect after a
\* Tick had moved the phase machine off its first phase
C14_Witness ==
    /\ inner.current_pattern_id = "box"
    /\ inner.phase_machine = PhaseMachineNew
    /\ latest_frame.phase # "Inhale"
    /\ state_tx.phase = "Inhale"
    /\ state_tx.pattern_id = "box"

\* C15: ResetSafetyLock, processed in any state and never through the monitor,
\* leaves the lock flag cleared, status Idle and no session, publishes that,
\* sends no statistics and changes nothing else; no state has the flag cleared
\* and a published status SafetyLock, and a StartSession processed with the
\* flag cleared and no Error or Critical violation starts a session
C15_ResetClearsLock ==
    /\ [][ DoResetSafetyLock =>
             /\ inner' = [inner EXCEPT !.safety_locked = FALSE,
                                       !.status = "Idle",
                                       !.session = None]
             /\ state_tx'.status = "Idle"
             /\ ~state_tx'.is_locked
             /\ safety' = safety
             /\ reply' = reply ]_vars
    /\ [](~inner.safety_locked =>
            inner.status # "SafetyLock" /\ state_tx.status # "SafetyLock")
    /\ [][ (DoStart /\ ~inner.safety_locked
               /\ ~HasSevere(GateViolations("StartSession", now'))) =>
             /\ inner'.status = "Running"
             /\ inner'.session # None
             /\ state_tx'.status = "Running" ]_vars

\* C15 witness: a StartSession was refused under the lock, and a reset has
\* since cleared the lock
C15_Witness ==
    /\ Logged("safety_lock_immutable")
    /\ ~inner.safety_locked
    /\ inner.status = "Idle"
    /\ ~state_tx.is_locked
    /\ state_tx.status = "Idle"

\* C16: StopSession, processed in any status and never through the monitor,
\* leaves status Idle and no session, publishes that, and changes nothing else
\* of the runtime's state
C16_StopAlwaysSucceeds ==
    [][ DoStop =>
          /\ inner' = [inner EXCEPT !.status = "Idle", !.session = None]
          /\ state_tx'.status = "Idle"
          /\ state_tx' = update_shared_state(
                            [Self EXCEPT !.inner = inner']).state_tx
          /\ safety' = safety ]_vars

\* C16 witness: a locked runtime's session was stopped and its statistics
\* are in the caller's reply slot
C16_Witness ==
    /\ inner.status = "Idle"
    /\ inner.session = None
    /\ inner.safety_locked
    /\ \E c \in Callers :
          /\ reply[c].buf # <<>>
          /\ reply[c].buf[1].pattern_id # ""

\* C17: in every reachable state the handler of Tick takes over whatever the
\* tick of the phase machine and of the engine yields and publishes it,
\* without a check by the monitor; a Tick processed moves the phase machine by
\* one tick, publishes snapshot and frame from it, and leaves status, lock
\* flag, session, pattern id and tempo scale unchanged
C17_TickNeverGated ==
    /\ [](\A pm \in PhaseMachineTick(inner.phase_machine), u \in Uncertainties :
            LET r == handle_tick(Self, pm, u) IN
            /\ r.inner.phase_machine = pm
            /\ r.inner.engine.uncertainty = u
            /\ PhaseFields(r.state_tx) = PhaseFieldsOf(pm)
            /\ r.state_tx.uncertainty = u
            /\ r.safety = safety)
    /\ [][ DoTick =>
          /\ inner'.phase_machine \in PhaseMachineTick(inner.phase_machine)
          /\ PhaseFields(state_tx') = PhaseFieldsOf(inner'.phase_machine)
          /\ PhaseFields(latest_frame') = PhaseFieldsOf(inner'.phase_machine)
          /\ state_tx'.uncertainty = inner'.engine.uncertainty
          /\ safety' = safety
          /\ inner'.status = inner.status
          /\ inner'.safety_locked = inner.safety_locked
          /\ inner'.session = inner.session
          /\ inner'.current_pattern_id = inner.current_pattern_id
          /\ inner'.tempo_scale = inner.tempo_scale ]_vars

\* C17 witness: the last call was a tick, it has been processed after an
\* EmergencyHalt, and the phase machine has left its first phase
C17_Witness ==
    /\ cmd_q = <<>>
    /\ ret.kind = "frame"
    /\ inner.status = "SafetyLock"
    /\ latest_frame.phase # "Inhale"
    /\ state_tx.phase = latest_frame.phase

\* C18: once the handle and its sender are dropped the runtime loop exits,
\* after it has handled every queued command and not before the drop; once
\* the runtime loop has exited the SignalActor loop exits, after it has taken
\* every queued sample and not before
C18_CooperativeShutdown ==
    /\ shutdown.cmd_tx_dropped ~> ~actor_alive
    /\ ~actor_alive ~> shutdown.signal_exited
    /\ [][ (actor_alive /\ ~actor_alive') =>
               shutdown.cmd_tx_dropped /\ cmd_q = <<>> ]_vars
    /\ [][ (~shutdown.signal_exited /\ shutdown'.signal_exited) =>
               ~actor_alive /\ signal_q = <<>> ]_vars
    /\ [](shutdown.signal_exited => ~actor_alive)

\* C18 witness: both loops have exited after the runtime handled a Tick and
\* published the heart rate of a sample
C18_Witness ==
    /\ shutdown.cmd_tx_dropped
    /\ ~actor_alive
    /\ shutdown.signal_exited
    /\ latest_frame.heart_rate # None
    /\ ops = 0


\* C19: the monitor's trace never holds more than 100 events; it is always the
\* most recent min(n, 100) of the n events checked so far, in check order;
\* each check appends its event at the tail, evicts exactly the oldest event
\* when the trace was full, and leaves the events it keeps untouched.
C19_TraceBoundedFifo ==
    /\ [](Len(safety.trace) <= 100)
    /\ [](LET n == Len(safety.trace)
          IN  /\ n = (IF now < 100 THEN now ELSE 100)
              /\ \A i \in 1..n : safety.trace[i].timestamp_ms = now - n + i)
    /\ [][ MonitorCheck =>
            LET kept == IF Len(safety.trace) < 100
                        THEN safety.trace ELSE Tail(safety.trace)
                n == Len(safety'.trace)
            IN  /\ n = Len(kept) + 1
                /\ SubSeq(safety'.trace, 1, n - 1) = kept
                /\ safety'.trace[n].timestamp_ms = now' ]_vars

\* two checks on a full trace: the two oldest events are gone
C19_Witness ==
    /\ Len(safety.trace) = 100
    /\ safety.trace[1].timestamp_ms = 3
    /\ safety.trace[100].timestamp_ms = 102

\* C20: a check appends exactly the violations it returns, in order, to the
\* violation log and returns is_safe exactly when it returns none (so a lone
\* Warning makes is_safe false); the log never shrinks under a check and
\* shrinks only by clear_violations, which empties the log and leaves the
\* trace and the last-tempo / last-pattern memory unchanged.
C20_ViolationLog ==
    /\ [][ MonitorCheck =>
            /\ safety'.violations = safety.violations \o ret'.val.violations
            /\ ret'.val.is_safe = (ret'.val.violations = <<>>)
            /\ \A i \in 1..Len(ret'.val.violations) :
                  ret'.val.violations[i].severity = "Warning" => ~ret'.val.is_safe ]_vars
    /\ [][ Len(safety'.violations) < Len(safety.violations) => MonitorClear ]_vars
    /\ [][ MonitorClear =>
            /\ safety'.violations = <<>>
            /\ safety'.trace = safety.trace
            /\ safety'.last_tempo = safety.last_tempo
            /\ safety'.last_tempo_change_ms = safety.last_tempo_change_ms
            /\ safety'.last_pattern_change_ms = safety.last_pattern_change_ms ]_vars

\* a check that produced a Warning and nothing else reported is_safe = false
C20_Witness ==
    /\ ret.kind = "check"
    /\ ret.val.violations = <<Violation("pattern_stability", "Warning")>>
    /\ ~ret.val.is_safe
    /\ safety.violations = ret.val.violations
    /\ safety.last_pattern_change_ms = now

\* a dt that compute accepts: positive and finite
ValidDt(dt) == is_finite(dt) /\ f32_lt(Fin(0), dt)

\* C21: for every controller history, reset() followed by compute(0, dt) with
\* a valid dt returns 0 and leaves the integral, the last error and the
\* filtered derivative at 0.
C21_ResetThenZeroError ==
    [][ ( /\ ret.kind = "reset"
          /\ PidCompute
          /\ ret'.val.error = Fin(0)
          /\ ValidDt(ret'.val.dt) )
        => /\ ret'.val.out = Fin(0)
           /\ pid'.integral = Fin(0)
           /\ pid'.last_error = Fin(0)
           /\ pid'.last_derivative = Fin(0) ]_vars

\* C22: compute(error, dt) with dt <= 0 returns 0 and leaves the whole
\* controller (integral, last error, filtered derivative, cached P/I/D terms,
\* gains) unchanged, for every error and every prior state.
C22_NonPositiveDtRejected ==
    [][ (PidCompute /\ f32_le(ret'.val.dt, Fin(0)))
        => ret'.val.out = Fin(0) /\ pid' = pid ]_vars

\* a compute with a negative dt after a compute that left history behind
C22_Witness ==
    /\ ret.kind = "compute"
    /\ ret.val.dt = Fin(0 - Unit)
    /\ ret.val.error = Fin(Unit)
    /\ ret.val.out = Fin(0)
    /\ pid.integral = Fin(0 - 5 * Unit)
    /\ pid.last_error = Fin(0 - 12 * Unit)

\* C23: after any sequence of compute calls with valid dt the integral lies in
\* [-integral_max, +integral_max], every returned output lies in
\* [output_min, output_max], and last_error is the error argument of the most
\* recent valid compute.
C23_IntegralAndOutputBounded ==
    /\ f32_le(f32_neg(pid.config.integral_max), pid.integral)
    /\ f32_le(pid.integral, pid.config.integral_max)
    /\ (ret.kind = "compute" /\ ValidDt(ret.val.dt))
         => /\ f32_le(pid.config.output_min, ret.val.out)
            /\ f32_le(ret.val.out, pid.config.output_max)
            /\ pid.last_error = ret.val.error

\* C24: from a successful StartSession to the StopSession or ResetSafetyLock
\* that ends the session, cycles_completed of the published snapshot never
\* decreases, whatever command is processed (LoadPattern and a repeated
\* StartSession included).
C24_CyclesMonotonicInSession ==
    [][ (inner.session # None /\ ~DoStop /\ ~DoResetSafetyLock)
        => state_tx'.cycles_completed >= state_tx.cycles_completed ]_vars

\* the violations the step appended to the monitor's log
NewViolations ==
    SubSeq(safety'.violations, Len(safety.violations) + 1, Len(safety'.violations))

\* the step's check recorded a violation of the given name and severity
Records(name, sev) ==
    \E i \in 1..Len(NewViolations) : NewViolations[i] = Violation(name, sev)

\* C25: when an AdjustTempo command moves the tempo scale from t0 to t1 and
\* dt > 0 has elapsed since the previous AdjustTempo event, its check records a
\* Warning named tempo_rate_limit exactly when |t1 - t0| / dt > 0.1 per second;
\* no other event type produces tempo_rate_limit; every AdjustTempo event
\* updates the monitor's remembered tempo and timestamp.
C25_TempoRateLimit ==
    [][ /\ ( /\ DoAdjustTempo
             /\ ~HasSevere(GateViolations("AdjustTempo", now'))
             /\ safety.last_tempo_change_ms > 0
             /\ now' - safety.last_tempo_change_ms > 0 )
          => ( Records("tempo_rate_limit", "Warning")
               <=> RateExceeds(FAbsDiff(inner'.tempo_scale, inner.tempo_scale),
                               now' - safety.last_tempo_change_ms) )
        /\ ~DoAdjustTempo =>
             \A i \in 1..Len(NewViolations) :
                 NewViolations[i].spec_name # "tempo_rate_limit"
        /\ DoAdjustTempo =>
             /\ safety'.last_tempo_change_ms = now'
             /\ safety'.last_tempo = state_tx.tempo_scale ]_vars

\* an EmergencyHalt event is among the last n entries of the trace
HaltWithin(trace, n) ==
    \E i \in 1..Len(trace) : i > Len(trace) - n /\ trace[i].event_type = "EmergencyHalt"

\* C26: a check raises a Critical violation named panic_halt exactly when the
\* given state's uncertainty exceeds 0.8, the event is not an EmergencyHalt and
\* none of the 10 most recent trace entries (the trace holding the event being
\* checked) is an EmergencyHalt; so an EmergencyHalt among the 9 entries
\* before an event suppresses the violation for that event.
C26_PanicHalt ==
    [][ MonitorCheck =>
          LET raised == \E i \in 1..Len(ret'.val.violations) :
                            ret'.val.violations[i].spec_name = "panic_halt"
          IN  /\ raised <=> ( /\ ret'.val.state.uncertainty > 80
                              /\ ret'.val.event.event_type # "EmergencyHalt"
                              /\ ~HaltWithin(safety'.trace, 10) )
              /\ raised => \E i \in 1..Len(ret'.val.violations) :
                               ret'.val.violations[i] = Violation("panic_halt", "Critical")
              /\ HaltWithin(safety.trace, 9) => ~raised ]_vars

\* panic_halt raised with the EmergencyHalt event just out of the window, after
\* checks that raised nothing while it was inside
C26_Witness ==
    /\ ret.kind = "check"
    /\ ret.val.state.uncertainty = 90
    /\ ret.val.violations = <<Violation("panic_halt", "Critical")>>
    /\ Len(safety.trace) = 11
    /\ safety.trace[1].event_type = "EmergencyHalt"
    /\ safety.violations = ret.val.violations
    /\ ops = 0

\* the step engages the lock: the status becomes SafetyLock or the lock flag
\* becomes set, in the actor or in the published snapshot
EngagesLock ==
    \/ inner.status # "SafetyLock" /\ inner'.status = "SafetyLock"
    \/ ~inner.safety_locked /\ inner'.safety_locked
    \/ state_tx.status # "SafetyLock" /\ state_tx'.status = "SafetyLock"
    \/ ~state_tx.is_locked /\ state_tx'.is_locked

\* C27: the status becomes SafetyLock and the lock flag becomes engaged only by
\* processing an EmergencyHalt command; no check, violation, signal result or
\* other command engages the lock.
C27_OnlyHaltEngagesLock ==
    /\ [][EngagesLock => DoEmergencyHalt]_vars
    /\ [][ ~DoEmergencyHalt =>
             /\ inner'.safety_locked => inner.safety_locked
             /\ inner'.status = "SafetyLock" => inner.status = "SafetyLock" ]_vars

\* the lock engaged by EmergencyHalt, and a StartSession queued behind it whose
\* check then raised the Critical safety_lock_immutable
C27_Witness ==
    /\ inner.safety_locked
    /\ inner.status = "SafetyLock"
    /\ state_tx.is_locked
    /\ Logged("safety_lock_immutable")

C29_SignalResultEffect ==
    [][ DoSignalEvent =>
          /\ IF inner.session # None
             THEN /\ inner'.session # None
                  /\ inner'.session[1].hr_samples =
                         Append(inner.session[1].hr_samples, Head(event_q))
                  /\ inner'.session[1].pattern_id = inner.session[1].pattern_id
             ELSE inner'.session = None
          /\ safety' = safety
          /\ inner'.status = inner.status
          /\ inner'.safety_locked = inner.safety_locked
          /\ inner'.current_pattern_id = inner.current_pattern_id
          /\ inner'.tempo_scale = inner.tempo_scale
          /\ inner'.phase_machine = inner.phase_machine
          /\ state_tx' = state_tx
          /\ latest_frame'.heart_rate = Some(Head(event_q)) ]_vars

\* a rate sample appended to the running session and published in the frame
C29_Witness ==
    /\ inner.session # None
    /\ Len(inner.session[1].hr_samples) = 1
    /\ latest_frame.heart_rate = Some(inner.session[1].hr_samples[1])
    /\ event_q = <<>>

\* C30: a SubmitSample command is forwarded to the SignalActor's queue at most
\* once (once while the SignalActor's receiver lives, not at all when it is
\* gone) and its handler never waits: it is ready whatever the signal and
\* result queues hold and takes no result; the SignalActor takes one command
\* per step and produces at most one result, for a sample only; and with the
\* SignalActor gone the runtime goes on to handle every queued command.
C30_SampleAtMostOnce ==
    /\ [][ DoProcessFrame =>
             /\ signal_q' = IF shutdown.signal_exited THEN signal_q
                            ELSE Append(signal_q, "ProcessSample")
             /\ event_q' = event_q
             /\ inner' = inner /\ state_tx' = state_tx ]_vars
    /\ [][ SignalStep =>
             /\ signal_q' = Tail(signal_q)
             /\ \/ event_q' = event_q
                \/ /\ Head(signal_q) = "ProcessSample"
                   /\ AppendedTo(event_q, event_q') ]_vars
    /\ []( (actor_alive /\ cmd_q # <<>> /\ Head(cmd_q).type = "ProcessFrame")
             => ENABLED DoProcessFrame )
    /\ [](shutdown.signal_exited => signal_q = <<>>)
    /\ (shutdown.signal_exited /\ cmd_q # <<>>) ~> (cmd_q = <<>>)
    /\ [](shutdown.signal_exited => actor_alive)

\* the SignalActor gone after it produced a result, the runtime alive with
\* every command that was issued handled and the result published
C30_Witness ==
    /\ shutdown.signal_exited
    /\ actor_alive
    /\ cmd_q = <<>>
    /\ signal_q = <<>>
    /\ event_q = <<>>
    /\ latest_frame.heart_rate # None
    /\ ops = 0

\* one iteration of RuntimeActor::run's loop in SampleSpec
LoopIteration == SampleCommands \/ DoSignalEvent \/ DoSignalClosed

\* C31: the runtime loop handles exactly one message (a command or a signal
\* result) per iteration and takes an iteration only when a message is
\* available on one of its two queues; it never spins without a message, also
\* after the signal-result queue was closed by the SignalActor exiting.
C31_OneMessagePerWake ==
    /\ []( (ENABLED LoopIteration) => (cmd_q # <<>> \/ event_q # <<>>) )
    /\ [][ LoopIteration =>
             \/ cmd_q' = Tail(cmd_q) /\ event_q' = event_q
             \/ event_q' = Tail(event_q) /\ cmd_q' = cmd_q ]_vars

\* the statistics the StopSession handled by this step replied
RepliedStats ==
    LET buf == reply'[Head(cmd_q).arg].buf IN buf[Len(buf)]

\* C32: the statistics replied by StopSession come from the session being
\* discarded: pattern_id is the id recorded when the session was started,
\* avg_heart_rate is absent exactly when the session has no rate sample and is
\* otherwise the mean of the session's samples, and cycles_completed is the
\* phase machine's cycle count at the time of the stop.
C32_StatsFromDiscardedSession ==
    [][ (DoStop /\ inner.session # None) =>
          LET session == inner.session[1]
              n == Len(session.hr_samples)
              stats == RepliedStats
          IN  /\ stats.pattern_id = session.pattern_id
              /\ (stats.avg_heart_rate = None) <=> (n = 0)
              /\ n > 0 =>
                   /\ stats.avg_heart_rate # None
                   /\ stats.avg_heart_rate[1] * n <= SumSeq(session.hr_samples) * 100
                   /\ (stats.avg_heart_rate[1] + 1) * n > SumSeq(session.hr_samples) * 100
              /\ stats.cycles_completed = inner.phase_machine.cycle_index
              /\ inner'.session = None ]_vars

\* the reply for a session that collected a result and completed a cycle
C32_Witness ==
    \E c \in Callers :
        /\ reply[c].buf # <<>>
        /\ reply[c].buf[1].cycles_completed = 1
        /\ reply[c].buf[1].avg_heart_rate = Some(8000)
        /\ reply[c].buf[1].pattern_id = "4-7-8"
        /\ inner.session = None

\* the history and cached terms of a controller
PidHistory(p) ==
    <<p.integral, p.last_error, p.last_derivative, p.last_p, p.last_i, p.last_d>>

\* C33: set_gains changes only the gains given as present among Kp, Ki, Kd and
\* leaves the absent gains, the rest of the configuration, the integral, the
\* last error, the filtered derivative and the cached terms unchanged; reset()
\* zeroes the integral, the last error, the filtered derivative and the cached
\* P/I/D terms and leaves the configuration unchanged.
C33_SetGainsAndResetFrames ==
    [][ /\ PidSetGains =>
             LET a == ret'.val IN
             /\ pid'.config.kp = IF a.kp # None THEN a.kp[1] ELSE pid.config.kp
             /\ pid'.config.ki = IF a.ki # None THEN a.ki[1] ELSE pid.config.ki
             /\ pid'.config.kd = IF a.kd # None THEN a.kd[1] ELSE pid.config.kd
             /\ pid'.config.integral_max = pid.config.integral_max
             /\ pid'.config.output_min = pid.config.output_min
             /\ pid'.config.output_max = pid.config.output_max
             /\ pid'.config.derivative_alpha = pid.config.derivative_alpha
             /\ PidHistory(pid') = PidHistory(pid)
        /\ PidReset =>
             /\ PidHistory(pid') = <<Fin(0), Fin(0), Fin(0), Fin(0), Fin(0), Fin(0)>>
             /\ pid'.config = pid.config ]_vars

\* Kp alone replaced on a controller that holds history from a compute
C33_Witness ==
    /\ ret.kind = "set_gains"
    /\ ret.val = [kp |-> Some(Fin(Unit)), ki |-> None, kd |-> None]
    /\ pid.config.kp = Fin(Unit)
    /\ pid.config.ki = Fin(2)
    /\ pid.integral = Fin(0 - 5 * Unit)
    /\ pid.last_error = Fin(0 - 12 * Unit)

\* C34: in every reachable state of the runtime, a status of Running or Paused
\* implies that a session exists; without a session the status, internal and
\* published, is Idle or SafetyLock.
C34_ActiveStatusHasSession ==
    /\ inner.status \in {"Running", "Paused"} => inner.session # None
    /\ inner.session = None =>
         /\ inner.status \in {"Idle", "SafetyLock"}
         /\ state_tx.status \in {"Idle", "SafetyLock"}

\* a session started and then discarded by StopSession
C34_Witness ==
    /\ inner.session = None
    /\ inner.status = "Idle"
    /\ ret.kind = "stats"
    /\ ret.val.pattern_id = "4-7-8"

\* C35: in every published snapshot a status of SafetyLock comes with
\* is_locked = true; while is_locked is true no snapshot shows Running or
\* Paused, and is_locked stays true until a ResetSafetyLock is processed.
C35_PublishedLockConsistent ==
    /\ [](state_tx.status = "SafetyLock" => state_tx.is_locked)
    /\ [](state_tx.is_locked => state_tx.status \notin {"Running", "Paused"})
    /\ [][ (state_tx.is_locked /\ ~DoResetSafetyLock) =>
             /\ state_tx'.is_locked
             /\ state_tx'.status \notin {"Running", "Paused"} ]_vars

\* a lock engaged on a running session, then a StopSession: the snapshot shows
\* Idle with the lock still engaged
C35_Witness ==
    /\ state_tx.is_locked
    /\ state_tx.status = "Idle"
    /\ inner.session = None
    /\ Len(safety.trace) = 1

\* the fields of a snapshot that mirror the actor's internal state
Mirrored(st) ==
    <<st.status, st.pattern_id, st.tempo_scale, st.is_locked, st.cycles_completed,
      st.uncertainty>>

\* C36: whenever the runtime has finished handling a message, the published
\* snapshot's status, pattern id, tempo scale, lock flag and cycle count (and
\* belief uncertainty) equal the runtime's internal values, so the check of a
\* gated command yields what a check against the internal values would yield.
C36_GateSeesCurrentState ==
    /\ [](Mirrored(state_tx) = Mirrored(update_shared_state(Self).state_tx))
    /\ [](/\ state_tx.status = inner.status
          /\ state_tx.pattern_id = inner.current_pattern_id
          /\ state_tx.tempo_scale = inner.tempo_scale
          /\ state_tx.is_locked = inner.safety_locked
          /\ state_tx.cycles_completed = inner.phase_machine.cycle_index)
    /\ [][ \A type \in {"StartSession", "LoadPattern", "AdjustTempo"} :
             GatedStep(type) =>
               NewViolations =
                 check_event(safety, [event_type |-> type, timestamp_ms |-> now'],
                             update_shared_state(Self).state_tx).violations ]_vars

\* three gated commands handled one after the other, each checked against
\* the state the one before it left
C36_Witness ==
    /\ state_tx.tempo_scale = 80
    /\ state_tx.pattern_id = "box"
    /\ state_tx.status = "Running"
    /\ inner.session # None
    /\ cmd_q = <<>>
    /\ Len(safety.trace) = 3

\* C37: while the published belief uncertainty exceeds 0.8, every
\* StartSession, LoadPattern and AdjustTempo command the runtime processes
\* records a Critical panic_halt violation and is dropped (status, session,
\* pattern, phase machine, tempo and lock flag stay as they were), also after
\* an EmergencyHalt and a ResetSafetyLock have been processed: the runtime's
\* verifier never has an EmergencyHalt event in its trace.
C37_PanicHaltNeverAcknowledged ==
    /\ [][ \A type \in {"StartSession", "LoadPattern", "AdjustTempo"} :
             (GatedStep(type) /\ state_tx.uncertainty > UncertaintyLimit) =>
                /\ Records("panic_halt", "Critical")
                /\ Guarded(inner') = Guarded(inner)
                /\ inner'.safety_locked = inner.safety_locked ]_vars
    /\ [](\A i \in 1..Len(safety.trace) :
             safety.trace[i].event_type # "EmergencyHalt")

\* a StartSession dropped under the lock of a processed EmergencyHalt, then a
\* ResetSafetyLock, then another StartSession dropped for panic_halt alone
C37_Witness ==
    /\ state_tx.uncertainty > UncertaintyLimit
    /\ ~state_tx.is_locked
    /\ state_tx.status = "Idle"
    /\ inner.session = None
    /\ safety.violations =
         << Violation("safety_lock_immutable", "Critical"),
            Violation("panic_halt", "Critical"),
            Violation("panic_halt", "Critical") >>
    /\ Len(safety.trace) = 2
    /\ cmd_q = <<>>

\* C38: every gated command the runtime processes, dropped or not, has its
\* event appended to the verifier's trace; a LoadPattern sets the verifier's
\* last-pattern-change timestamp and an AdjustTempo its last-tempo value (the
\* published tempo) and timestamp; so a LoadPattern processed less than 60
\* seconds after an earlier LoadPattern, dropped or not, records a
\* pattern_stability Warning.
C38_DroppedCommandsLeaveMemory ==
    [][ /\ \A type \in {"StartSession", "LoadPattern", "AdjustTempo"} :
             GatedStep(type) =>
                /\ safety'.trace # <<>>
                /\ safety'.trace[Len(safety'.trace)] =
                      [event_type |-> type, timestamp_ms |-> now']
        /\ DoLoadPattern => safety'.last_pattern_change_ms = now'
        /\ DoAdjustTempo =>
             /\ safety'.last_tempo = state_tx.tempo_scale
             /\ safety'.last_tempo_change_ms = now'
        /\ ( /\ DoLoadPattern
             /\ safety.last_pattern_change_ms > 0
             /\ now' - safety.last_pattern_change_ms < PatternStabilityMs )
           => Records("pattern_stability", "Warning") ]_vars

\* a LoadPattern blocked for panic_halt, then a second LoadPattern whose check
\* records pattern_stability; the pattern is still the initial one
C38_Witness ==
    /\ safety.violations =
         << Violation("panic_halt", "Critical"),
            Violation("pattern_stability", "Warning"),
            Violation("panic_halt", "Critical") >>
    /\ Len(safety.trace) = 2
    /\ \A i \in 1..2 : safety.trace[i].event_type = "LoadPattern"
    /\ inner.current_pattern_id = "4-7-8"
    /\ state_tx.pattern_id = "4-7-8"

\* C39: the monitor the Tauri commands check_safety_event and
\* clear_safety_violations act on is not the runtime's: those calls leave the
\* runtime verifier (trace, violation log, last tempo and timestamps), the
\* runtime's state and its snapshot unchanged; every gated command is checked
\* against the runtime's verifier alone, and the violation count the runtime
\* publishes is the length of its own verifier's log.
C39_DiagnosticMonitorIsSeparate ==
    [][ /\ (check_safety_event \/ clear_safety_violations) =>
             UNCHANGED <<safety, inner, state_tx, latest_frame, cmd_q>>
        /\ \A type \in {"StartSession", "LoadPattern", "AdjustTempo"} :
             GatedStep(type) =>
                /\ safety' =
                     check_event(safety, [event_type |-> type, timestamp_ms |-> now'],
                                 state_tx).safety
                /\ safety_state' = safety_state
        /\ state_tx' # state_tx =>
             state_tx'.trauma_count = Len(safety'.violations) ]_vars

\* the runtime has blocked a command and published its violation; the
\* diagnostic monitor has checked an event and has then been cleared
C39_Witness ==
    /\ ret.kind = "clear_safety_violations"
    /\ safety_state.trace # <<>>
    /\ safety_state.violations = <<>>
    /\ safety.violations # <<>>
    /\ state_tx.trauma_count = Len(safety.violations)
    /\ safety.trace # safety_state.trace

====
